---- MODULE Spec2Model ----
(***************************************************************************)
(* PeTTraC: the event bus, the observable state, the button sampler and    *)
(* the application run loop, as state machines translated from             *)
(*   src/PeTTrac/event_system.py        (Event, EventBus)                  *)
(*   src/PeTTrac/state_manager.py       (Observable, AppState)             *)
(*   src/PeTTrac/hardware_interface.py  (RaspberryPi, ST7789)              *)
(*   src/PeTTrac/hardware_abstraction.py (HardwareManager)                 *)
(*   src/PeTTrac/app.py                 (PeTTraCApplication)               *)
(* Each component has its own specification (SpecBus, SpecObs, SpecBtn,    *)
(* SpecApp, SpecBat, SpecDisp, SpecPix, SpecToast, SpecBl, SpecSense,      *)
(* SpecScreens, SpecChan, SpecMgr) over the shared                         *)
(* variables; the variables of the other                                   *)
(* components stay at their initial values.                                *)
(***************************************************************************)
EXTENDS Integers, Sequences, FiniteSets, TLC

VARIABLES
    \* ---- EventBus (event_system.py) ----
    listeners,          \* EventBus.listeners: kind -> list of callbacks
    frames,             \* call stack of publish() activations (last = innermost)
    processed_events,   \* EventBus.processed_events
    escaped,            \* TRUE once an error has propagated out of publish()
    npub,               \* number of publish() calls made so far
    pending,            \* history: kind -> callbacks subscribed from inside a publish of that kind
    selfUnsub,          \* history: kind -> callbacks that removed themselves and were not subscribed again
    \* ---- Observable (state_manager.py) ----
    obsValue,           \* Observable._value
    observers,          \* Observable._observers
    obsFrames,          \* call stack of _notify_observers() activations
    obsLog,             \* history of the last two value-setter calls
    nsets,              \* number of setter calls made so far
    \* ---- button sampler (hardware_interface.py, hardware_abstraction.py) ----
    now,                \* wall clock, ms
    hwButton,           \* RaspberryPi.button_states[key]
    lastPress,          \* RaspberryPi.last_button_press_time[key]
    hwCallback,         \* RaspberryPi.button_callbacks[key] is set
    mgrButton,          \* HardwareManager.button_states[key]
    btnLog,             \* history of the sampler's last poll and of the counts
    \* ---- application (app.py, hardware_abstraction.py) ----
    pc,                 \* position of PeTTraCApplication.run
    running,            \* PeTTraCApplication.running
    stateScreen,        \* AppState.current_screen.value
    activeScreen,       \* name of PeTTraCApplication.current_screen
    screens,            \* keys of PeTTraCApplication.screens
    hw_initialized,     \* HardwareManager.hw_initialized
    link,               \* the display link: bus handle and output lines
    appLog,             \* history of the shutdown calls and screen changes
    \* ---- battery (hardware_interface.py) ----
    bat,                \* BatteryManager: initialized flag and thresholds
    batLog,             \* history: the percentage reads and their outcomes
    \* ---- display driver (hardware_interface.py) ----
    disp,               \* ST7789: stored rotation, output lines, panel register
    dispLog,            \* history: the last driver operation and what it emitted
    \* ---- toast (state_manager.py, app.py) ----
    toast,              \* AppState.toast_message.value
    clock,              \* time.time(), in tenths of a second
    toastLog,           \* history: the last _render_toast call
    \* ---- backlight (hardware_interface.py, hardware_abstraction.py) ----
    bl,                 \* the backlight: driven duty, brightness state, flags
    blLog,              \* history: the last backlight operation
    \* ---- battery status of a tick (hardware_abstraction.py, state_manager.py) ----
    sense,              \* AppState.battery_percentage / battery_voltage / is_charging
    senseLog,           \* history: the last battery status update of a tick
    \* ---- button channels (hardware_interface.py) ----
    chan,               \* RaspberryPi.button_states and button_callbacks
    chanLog,            \* history: the last poll or registration
    \* ---- hardware manager (hardware_abstraction.py) ----
    mgr,                \* HardwareManager: flags, display link, backlight, rotation
    mgrLog              \* history: the last call of an entry point

busVars == <<listeners, frames, processed_events, escaped, npub, pending,
             selfUnsub>>
obsVars == <<obsValue, observers, obsFrames, obsLog, nsets>>
btnVars == <<now, hwButton, lastPress, hwCallback, mgrButton, btnLog>>
appVars == <<pc, running, stateScreen, activeScreen, screens, hw_initialized,
             link, appLog>>
batVars == <<bat, batLog>>
dispVars == <<disp, dispLog>>
toastVars == <<toast, clock, toastLog>>
blVars == <<bl, blLog>>
senseVars == <<sense, senseLog>>
chanVars == <<chan, chanLog>>
mgrVars == <<mgr, mgrLog>>
vars == <<busVars, obsVars, btnVars, appVars, batVars, dispVars, toastVars,
          blVars, senseVars, chanVars, mgrVars>>

(***************************************************************************)
(* Bounds of the model.                                                    *)
(***************************************************************************)
MaxPublishes == 2       \* publish() calls per behaviour
MaxDepth == 2           \* nesting of publish() inside callbacks

Callbacks == {"a", "b"}
Kinds == {"button_press", "screen_change"}

(***************************************************************************)
(* List helpers (Python list semantics).                                   *)
(***************************************************************************)
Elems(s) == {s[i] : i \in 1..Len(s)}

\* `x in s`
Contains(s, x) == \E i \in 1..Len(s) : s[i] = x

\* list.remove(x): removes the first occurrence
RECURSIVE ListRemove(_, _)
ListRemove(s, x) ==
    IF s = <<>> THEN <<>>
    ELSE IF Head(s) = x THEN Tail(s)
    ELSE <<Head(s)>> \o ListRemove(Tail(s), x)

Occurrences(s, x) == Cardinality({i \in 1..Len(s) : s[i] = x})

IndexOf(s, x) == CHOOSE i \in 1..Len(s) : s[i] = x /\ \A j \in 1..(i-1) : s[j] # x

Top(st) == st[Len(st)]
Pop(st) == SubSeq(st, 1, Len(st) - 1)
SetTop(st, f) == [st EXCEPT ![Len(st)] = f]

(***************************************************************************)
(* EventBus                                                                *)
(***************************************************************************)
InitBus ==
    /\ listeners = [k \in Kinds |-> <<>>]
    /\ frames = <<>>
    /\ processed_events = 0
    /\ escaped = FALSE
    /\ npub = 0
    /\ pending = [k \in Kinds |-> {}]
    /\ selfUnsub = [k \in Kinds |-> {}]

\* EventBus.subscribe: append unless already present
SubscribeList(ls, k, c) ==
    IF Contains(ls[k], c) THEN ls ELSE [ls EXCEPT ![k] = Append(@, c)]

\* EventBus.unsubscribe: remove if present
UnsubscribeList(ls, k, c) ==
    IF Contains(ls[k], c) THEN [ls EXCEPT ![k] = ListRemove(@, c)] ELSE ls

\* kinds of the publishes in progress
ActiveKinds == {frames[i].kind : i \in 1..Len(frames)}

\* history kept by a subscribe(k, c) call
SubscribeHistory(k, c) ==
    /\ pending' = IF k \in ActiveKinds /\ ~Contains(listeners[k], c)
                  THEN [pending EXCEPT ![k] = @ \cup {c}]
                  ELSE pending
    /\ selfUnsub' = [selfUnsub EXCEPT ![k] = @ \ {c}]

\* subscribe / unsubscribe called outside any publish
Subscribe(k, c) ==
    /\ frames = <<>>
    /\ listeners' = SubscribeList(listeners, k, c)
    /\ SubscribeHistory(k, c)
    /\ UNCHANGED <<frames, processed_events, escaped, npub>>

Unsubscribe(k, c) ==
    /\ frames = <<>>
    /\ listeners' = UnsubscribeList(listeners, k, c)
    /\ UNCHANGED <<frames, processed_events, escaped, npub, pending, selfUnsub>>

\* the list publish() iterates: the copy taken when the call began
IterListLive(f) == listeners[f.kind]
IterList(f) == f.snap

\* a new activation of publish(Event(k)): line 68 takes the copy
NewFrame(k) ==
    [kind |-> k, snap |-> listeners[k], idx |-> 0,
     handled |-> FALSE, handledAt |-> 0, busy |-> FALSE,
     began |-> listeners[k], called |-> <<>>, raised |-> {}, selfRemoved |-> {},
     owed |-> pending[k], banned |-> selfUnsub[k],
     base |-> processed_events, inner |-> 0]

\* publish() called outside any callback
Publish(k) ==
    /\ frames = <<>>
    /\ npub < MaxPublishes
    /\ frames' = <<NewFrame(k)>>
    /\ npub' = npub + 1
    /\ pending' = [pending EXCEPT ![k] = {}]
    /\ UNCHANGED <<listeners, processed_events, escaped, selfUnsub>>

\* the loop of publish() has a next callback
HasNext == /\ frames # <<>>
           /\ ~Top(frames).busy
           /\ Top(frames).idx < Len(IterList(Top(frames)))
NextCallback == IterList(Top(frames))[Top(frames).idx + 1]

\* line 71: is the callback called for this event?
MayCallAlways(f) == TRUE
MayCall(f) == ~f.handled

\* the frame after its next callback was called and returned normally
Called(f, c) == [f EXCEPT !.idx = @ + 1, !.called = Append(@, c)]

\* the callbacks of the activation f that returned without raising (line 74
\* was reached for them), and these together with those of the publishes
\* made from inside f's callbacks that have returned
OwnReturns(f) == Len(f.called) - Cardinality(f.raised) - (IF f.busy THEN 1 ELSE 0)
Returns(f) == OwnReturns(f) + f.inner

\* line 71, event already handled: the callback is passed over
SkipHandledCounted ==
    /\ HasNext
    /\ ~MayCall(Top(frames))
    /\ frames' = SetTop(frames, [Top(frames) EXCEPT !.idx = @ + 1])
    /\ processed_events' = processed_events + 1
    /\ UNCHANGED <<listeners, escaped, npub, pending, selfUnsub>>
SkipHandled ==
    /\ HasNext
    /\ ~MayCall(Top(frames))
    /\ frames' = SetTop(frames, [Top(frames) EXCEPT !.idx = @ + 1])
    /\ UNCHANGED <<listeners, processed_events, escaped, npub, pending, selfUnsub>>

\* a callback that only reads the event
InvokeNone ==
    /\ HasNext /\ MayCall(Top(frames))
    /\ frames' = SetTop(frames, Called(Top(frames), NextCallback))
    /\ processed_events' = processed_events + 1
    /\ UNCHANGED <<listeners, escaped, npub, pending, selfUnsub>>

\* a callback that calls event.mark_handled()
InvokeMarkHandled ==
    /\ HasNext /\ MayCall(Top(frames))
    /\ LET f == Called(Top(frames), NextCallback) IN
       frames' = SetTop(frames, [f EXCEPT !.handled = TRUE, !.handledAt = Len(f.called)])
    /\ processed_events' = processed_events + 1
    /\ UNCHANGED <<listeners, escaped, npub, pending, selfUnsub>>

\* lines 72-76 when the callback raises: caught and logged, the loop goes on
InvokeRaisePropagates ==
    /\ HasNext /\ MayCall(Top(frames))
    /\ frames' = <<>>
    /\ escaped' = TRUE
    /\ UNCHANGED <<listeners, processed_events, npub, pending, selfUnsub>>
InvokeRaise ==
    /\ HasNext /\ MayCall(Top(frames))
    /\ LET f == Called(Top(frames), NextCallback) IN
       frames' = SetTop(frames, [f EXCEPT !.raised = @ \cup {Len(f.called)}])
    /\ UNCHANGED <<listeners, processed_events, escaped, npub, pending, selfUnsub>>

\* a callback that calls subscribe(k, c)
InvokeSubscribe(k, c) ==
    /\ HasNext /\ MayCall(Top(frames))
    /\ frames' = SetTop(frames, Called(Top(frames), NextCallback))
    /\ listeners' = SubscribeList(listeners, k, c)
    /\ SubscribeHistory(k, c)
    /\ processed_events' = processed_events + 1
    /\ UNCHANGED <<escaped, npub>>

\* a callback that calls unsubscribe(k, c)
InvokeUnsubscribe(k, c) ==
    /\ HasNext /\ MayCall(Top(frames))
    /\ LET self == NextCallback
           own == k = Top(frames).kind /\ c = self /\ Contains(listeners[k], c)
           f == Called(Top(frames), self)
       IN /\ frames' = SetTop(frames,
                 IF own THEN [f EXCEPT !.selfRemoved = @ \cup {c}] ELSE f)
          /\ selfUnsub' = IF own THEN [selfUnsub EXCEPT ![k] = @ \cup {c}] ELSE selfUnsub
    /\ listeners' = UnsubscribeList(listeners, k, c)
    /\ processed_events' = processed_events + 1
    /\ UNCHANGED <<escaped, npub, pending>>

\* a callback that calls publish(Event(k)): the callback stays active (busy)
\* until the inner publish returns
InvokePublish(k) ==
    /\ HasNext /\ MayCall(Top(frames))
    /\ npub < MaxPublishes
    /\ Len(frames) < MaxDepth
    /\ LET f == [Top(frames) EXCEPT !.busy = TRUE, !.called = Append(@, NextCallback)]
       IN frames' = Append(SetTop(frames, f), NewFrame(k))
    /\ npub' = npub + 1
    /\ pending' = [pending EXCEPT ![k] = {}]
    /\ UNCHANGED <<listeners, processed_events, escaped, selfUnsub>>

\* the loop of publish() is over: publish returns; a callback that was waiting
\* for it returns too (line 74)
Return ==
    /\ frames # <<>>
    /\ ~Top(frames).busy
    /\ Top(frames).idx >= Len(IterList(Top(frames)))
    /\ IF Len(frames) > 1
       THEN LET p == frames[Len(frames) - 1] IN
            /\ frames' = SetTop(Pop(frames),
                                [p EXCEPT !.busy = FALSE, !.idx = @ + 1,
                                          !.inner = @ + Returns(Top(frames))])
            /\ processed_events' = processed_events + 1
       ELSE /\ frames' = <<>>
            /\ UNCHANGED processed_events
    /\ UNCHANGED <<listeners, escaped, npub, pending, selfUnsub>>

NextBus ==
    \/ \E k \in Kinds, c \in Callbacks : Subscribe(k, c)
    \/ \E k \in Kinds, c \in Callbacks : Unsubscribe(k, c)
    \/ \E k \in Kinds : Publish(k)
    \/ SkipHandled
    \/ InvokeNone
    \/ InvokeMarkHandled
    \/ InvokeRaise
    \/ \E k \in Kinds, c \in Callbacks : InvokeSubscribe(k, c)
    \/ \E k \in Kinds, c \in Callbacks : InvokeUnsubscribe(k, c)
    \/ \E k \in Kinds : InvokePublish(k)
    \/ Return

(***************************************************************************)
(* EventBus: properties                                                    *)
(***************************************************************************)
\* the loop of an activation is over (it is about to return)
FrameDone(f) == ~f.busy /\ f.idx >= Len(IterList(f))

BusFrames == {frames[i] : i \in 1..Len(frames)}

\* C34: the count of processed callbacks never decreases, and each publish
\* raises it by exactly the number of callbacks invoked in that publish that
\* returned without raising; callbacks skipped because the event was handled
\* and callbacks that raised add nothing.
C34_CountInv ==
    \A i \in 1..Len(frames) :
        LET f == frames[i]
            above == IF i < Len(frames) THEN processed_events - frames[i + 1].base ELSE 0
        IN processed_events - f.base = Returns(f) + above
C34_CountStep == processed_events' >= processed_events
C34_ProcessedCount == [](C34_CountInv) /\ [][C34_CountStep]_vars

\* the second publish ends: its first callback returned and marked the event
\* handled, its second was skipped, and the count rose by one
C34_Witness ==
    /\ Len(frames) = 1 /\ FrameDone(frames[1])
    /\ frames[1].handled /\ Len(frames[1].called) = 1 /\ Len(frames[1].snap) = 2
    /\ frames[1].raised = {}
    /\ processed_events - frames[1].base = 1
    /\ npub = 2 /\ frames[1].base < Len(frames[1].snap)

\* C1 (as stated): during publish(e) only callbacks subscribed to e's kind when
\* the call began are invoked for e, and a callback subscribed to that kind
\* from inside a callback of a publish of that kind (and still subscribed) has
\* been invoked by the next publish of that kind when it returns.
C1_Original ==
    \A f \in BusFrames :
        /\ Elems(f.called) \subseteq Elems(f.began)
        /\ FrameDone(f) => (f.owed \cap Elems(f.began)) \subseteq Elems(f.called)

\* C1 (amended): during publish(e) only callbacks subscribed to e's kind when
\* the call began are invoked for e, so a callback first subscribed from inside
\* a callback of that publish is not invoked for e; the next publish of that
\* kind invokes it (if still subscribed) unless that event is marked handled
\* before its turn.
C1_SnapshotAtPublish ==
    \A f \in BusFrames :
        /\ Elems(f.called) \subseteq Elems(f.began)
        /\ FrameDone(f) =>
             \A c \in f.owed :
                 c \in Elems(f.began) => (c \in Elems(f.called) \/ f.handled)

\* a publish that returns having invoked a callback that was subscribed from
\* inside the previous publish of its kind
C1_Witness ==
    \E f \in BusFrames :
        /\ FrameDone(f)
        /\ \E c \in f.owed : c \in Elems(f.called)
        /\ Len(f.began) = 2

\* C2: a subscriber that unsubscribes itself inside its own callback during
\* publish(e) is invoked exactly once for e and by no later publish of that
\* kind (a publish that begins while it has not been subscribed again); every
\* subscriber after it in e's snapshot is invoked for e unless e is marked
\* handled.
C2_SelfUnsubscribe ==
    \A f \in BusFrames :
        /\ \A c \in f.selfRemoved : Occurrences(f.called, c) = 1
        /\ \A c \in f.banned : ~Contains(f.called, c)
        /\ (FrameDone(f) /\ ~f.handled) =>
             \A c \in f.selfRemoved :
                 \A j \in 1..Len(f.began) :
                     j > IndexOf(f.began, c) => Contains(f.called, f.began[j])

\* a publish that returns after its first subscriber removed itself and the
\* second was invoked all the same, while a later publish of that kind, begun
\* without the first one, is in progress or has been made
C2_Witness ==
    \E f \in BusFrames :
        /\ FrameDone(f) /\ ~f.handled
        /\ Len(f.began) = 2
        /\ f.began[1] \in f.selfRemoved
        /\ f.called = f.began

\* a later publish of the kind returns without having invoked a subscriber
\* that had removed itself, the other subscriber having been invoked
C2_WitnessLater ==
    \E f \in BusFrames :
        /\ FrameDone(f)
        /\ f.banned # {}
        /\ f.called # <<>>

\* C3: once a callback has set event.handled, no callback later in the
\* subscriber order is invoked for that publish, the callbacks up to and
\* including the one that set it were each invoked exactly once, in order, and
\* handled never returns to false.
C3_HandledInv ==
    \A f \in BusFrames :
        f.handled =>
            /\ f.handledAt >= 1
            /\ f.called = SubSeq(f.began, 1, f.handledAt)
            /\ \A j \in 1..f.handledAt : Occurrences(f.called, f.began[j]) = 1
            /\ \A j \in (f.handledAt + 1)..Len(f.began) : ~Contains(f.called, f.began[j])

C3_Latch ==
    \A i \in 1..Len(frames) :
        (frames[i].handled /\ i <= Len(frames') /\ frames'[i].began = frames[i].began
            /\ frames'[i].idx >= frames[i].idx)
        => frames'[i].handled

C3_HandledLatch == [](C3_HandledInv) /\ [][C3_Latch]_vars

\* a publish returns with the event handled by its first callback and the
\* second callback passed over
C3_Witness ==
    \E f \in BusFrames :
        /\ FrameDone(f) /\ f.handled
        /\ f.handledAt = 1 /\ Len(f.began) = 2 /\ Len(f.called) = 1

\* C4: a callback that raises does not end publish: the error does not leave
\* publish, every later callback of the snapshot is invoked unless the event
\* is handled, and the raise leaves the subscriber lists as they are.
C4_RaiseInv ==
    /\ ~escaped
    /\ \A f \in BusFrames :
         (FrameDone(f) /\ ~f.handled) =>
             \A p \in f.raised :
                 /\ Len(f.called) = Len(f.began)
                 /\ \A j \in (p + 1)..Len(f.began) : f.called[j] = f.began[j]

C4_RaiseStep ==
    (/\ frames # <<>> /\ Len(frames') = Len(frames)
     /\ Top(frames').raised # Top(frames).raised)
    => listeners' = listeners

C4_RaiseIsolated == [](C4_RaiseInv) /\ [][C4_RaiseStep]_vars

\* a publish returns after its first callback raised and its second was invoked
C4_Witness ==
    \E f \in BusFrames :
        /\ FrameDone(f) /\ ~f.handled
        /\ 1 \in f.raised /\ Len(f.called) = 2
        /\ Contains(listeners[f.kind], f.began[1])

(***************************************************************************)
(* Observable                                                              *)
(***************************************************************************)
MaxSets == 3            \* calls of the value setter per behaviour
MaxObsDepth == 2        \* nesting of the value setter inside observers

Observers == {"o1", "o2", "o3"}
Values == {0, 1}

ZeroCount == [o \in Observers |-> 0]

\* history: prev/last are the arguments of the last two setter calls, cntPrev
\* and cntLast count, per observer, the invocations made by the notification
\* passes of these two calls, passes counts the notification passes started
NoSets == [prev |-> -1, last |-> -1, cntPrev |-> ZeroCount, cntLast |-> ZeroCount,
           passes |-> 0]

\* Observable.__init__, lines 16-18, with initial value 0
InitObs ==
    /\ obsValue = 0
    /\ observers = <<>>
    /\ obsFrames = <<>>
    /\ obsLog = NoSets
    /\ nsets = 0

\* line 28: is the new value different from the current one?
Changed(new, cur) == new # cur

\* the value setter, lines 25-31: the value is stored before the observers are
\* notified; st is the call stack the notification pass is pushed on. A pass
\* carries the argument new_value, the position of its loop, and, as history,
\* the list as it was when the pass began, the observers it invoked (in
\* order) and the positions in that order of the invocations that raised
SetterFrames(st, v) ==
    IF Changed(v, obsValue)
    THEN Append(st, [new |-> v, idx |-> 0, busy |-> FALSE, sid |-> nsets + 1,
                     began |-> observers, called |-> <<>>, raised |-> {}])
    ELSE st

\* the history after a setter call with argument v
SetterLog(log, v) ==
    [prev |-> log.last, last |-> v,
     cntPrev |-> log.cntLast, cntLast |-> ZeroCount,
     passes |-> log.passes + (IF Changed(v, obsValue) THEN 1 ELSE 0)]

SetterCall(v) ==
    /\ nsets < MaxSets
    /\ nsets' = nsets + 1
    /\ obsValue' = IF Changed(v, obsValue) THEN v ELSE obsValue

\* observable.value = v, called outside any observer
ObsSet(v) ==
    /\ obsFrames = <<>>
    /\ SetterCall(v)
    /\ obsLog' = SetterLog(obsLog, v)
    /\ obsFrames' = SetterFrames(obsFrames, v)
    /\ UNCHANGED observers

\* Observable.observe / unobserve
ObserveList(l, o) == IF Contains(l, o) THEN l ELSE Append(l, o)
UnobserveList(l, o) == IF Contains(l, o) THEN ListRemove(l, o) ELSE l

Observe(o) ==
    /\ obsFrames = <<>>
    /\ observers' = ObserveList(observers, o)
    /\ UNCHANGED <<obsValue, obsFrames, obsLog, nsets>>

Unobserve(o) ==
    /\ obsFrames = <<>>
    /\ observers' = UnobserveList(observers, o)
    /\ UNCHANGED <<obsValue, obsFrames, obsLog, nsets>>

\* _notify_observers, line 45: the loop runs over the list itself, by position
ObsHasNext ==
    /\ obsFrames # <<>>
    /\ ~Top(obsFrames).busy
    /\ Top(obsFrames).idx < Len(observers)
NextObserver == observers[Top(obsFrames).idx + 1]

\* the history after the next observer was invoked by the innermost pass
Notified ==
    LET f == Top(obsFrames) o == NextObserver IN
    IF f.sid = nsets THEN [obsLog EXCEPT !.cntLast[o] = @ + 1]
    ELSE IF f.sid = nsets - 1 THEN [obsLog EXCEPT !.cntPrev[o] = @ + 1]
    ELSE obsLog

\* line 47: the observer at the loop's position is called
Invoked(f) == [f EXCEPT !.called = Append(@, NextObserver)]

\* the loop moves to the next position of the list
Advance(f) == [f EXCEPT !.idx = @ + 1]

\* an observer that returns
NotifyNone ==
    /\ ObsHasNext
    /\ obsFrames' = SetTop(obsFrames, Advance(Invoked(Top(obsFrames))))
    /\ obsLog' = Notified
    /\ UNCHANGED <<obsValue, observers, nsets>>

\* lines 46-49: an observer that raises an Exception; the except clause inside
\* the loop logs it and the loop goes on
Caught(f) == [f EXCEPT !.raised = @ \cup {Len(f.called)}]

NotifyRaise ==
    /\ ObsHasNext
    /\ obsFrames' = SetTop(obsFrames, Advance(Caught(Invoked(Top(obsFrames)))))
    /\ obsLog' = Notified
    /\ UNCHANGED <<obsValue, observers, nsets>>

\* an observer that calls observe(o) / unobserve(o) on the same Observable
NotifyObserve(o) ==
    /\ ObsHasNext
    /\ obsFrames' = SetTop(obsFrames, Advance(Invoked(Top(obsFrames))))
    /\ observers' = ObserveList(observers, o)
    /\ obsLog' = Notified
    /\ UNCHANGED <<obsValue, nsets>>

NotifyUnobserve(o) ==
    /\ ObsHasNext
    /\ obsFrames' = SetTop(obsFrames, Advance(Invoked(Top(obsFrames))))
    /\ observers' = UnobserveList(observers, o)
    /\ obsLog' = Notified
    /\ UNCHANGED <<obsValue, nsets>>

\* an observer that sets the same Observable: when the value differs, the
\* observer stays active (busy) until the inner pass returns
NotifySet(v) ==
    /\ ObsHasNext
    /\ Len(obsFrames) < MaxObsDepth
    /\ SetterCall(v)
    /\ obsLog' = SetterLog(Notified, v)
    /\ LET f == Invoked(Top(obsFrames))
           g == IF Changed(v, obsValue) THEN [f EXCEPT !.busy = TRUE] ELSE Advance(f)
       IN obsFrames' = SetterFrames(SetTop(obsFrames, g), v)
    /\ UNCHANGED observers

\* the loop of a pass is over: _notify_observers returns, and with it the
\* setter and the observer that called it
ObsReturn ==
    /\ obsFrames # <<>>
    /\ ~Top(obsFrames).busy
    /\ Top(obsFrames).idx >= Len(observers)
    /\ obsFrames' =
         IF Len(obsFrames) > 1
         THEN LET p == obsFrames[Len(obsFrames) - 1] IN
              SetTop(Pop(obsFrames), [p EXCEPT !.busy = FALSE, !.idx = @ + 1])
         ELSE <<>>
    /\ UNCHANGED <<obsValue, observers, obsLog, nsets>>

NextObs ==
    \/ \E v \in Values : ObsSet(v)
    \/ \E o \in Observers : Observe(o)
    \/ \E o \in Observers : Unobserve(o)
    \/ NotifyNone
    \/ NotifyRaise
    \/ \E o \in Observers : NotifyObserve(o)
    \/ \E o \in Observers : NotifyUnobserve(o)
    \/ \E v \in Values : NotifySet(v)
    \/ ObsReturn

(***************************************************************************)
(* Observable: properties                                                  *)
(***************************************************************************)
\* a step that is a call of the value setter with the value it already holds
SetSameValue == nsets' = nsets + 1 /\ obsLog'.last = obsValue

\* C5, first half: a set of the value the Observable already holds changes
\* nothing and starts no notification pass.
C5_SetSameIsNoOp ==
    [][SetSameValue =>
         /\ obsValue' = obsValue
         /\ observers' = observers
         /\ Len(obsFrames') = Len(obsFrames)
         /\ obsLog'.passes = obsLog.passes]_vars

\* C5: setting the value the Observable already holds invokes no observer, and
\* two consecutive sets of the same value invoke each observer at most once in
\* total.
C5_SetTwiceNotifiesOnce ==
    obsLog.prev = obsLog.last /\ obsLog.prev # -1 =>
        \A o \in Observers :
            /\ obsLog.cntLast[o] = 0
            /\ obsLog.cntPrev[o] + obsLog.cntLast[o] <= 1

\* two consecutive sets of one value, the first of which notified an observer
C5_Witness ==
    /\ obsLog.prev = obsLog.last /\ obsLog.prev # -1
    /\ obsFrames = <<>>
    /\ \E o \in Observers : obsLog.cntPrev[o] = 1

\* a notification pass whose loop is over and which has not returned yet
PassDone(f) == ~f.busy /\ f.idx >= Len(observers)

\* C24: for every set(new) with new # current, every observer registered on
\* the Observable is invoked exactly once with new, in registration order, and
\* an observer that raises does not stop the observers after it from being
\* invoked nor make set raise.
\* Stated for the observers that were registered when the pass began and are
\* registered when it ends.
C24_EveryObserverOnce ==
    obsFrames # <<>> /\ PassDone(Top(obsFrames)) =>
        \A o \in Observers :
            Contains(Top(obsFrames).began, o) /\ Contains(observers, o) =>
                Cardinality({i \in 1..Len(Top(obsFrames).called) :
                                 Top(obsFrames).called[i] = o}) = 1

\* what the code keeps of C24: a raise is confined to the call, so that the
\* observer after a raising one is the next to be invoked by the same pass
C24_RaiseDoesNotStopPass ==
    [][NotifyRaise =>
         /\ Len(obsFrames') = Len(obsFrames)
         /\ Top(obsFrames').idx = Top(obsFrames).idx + 1
         /\ observers' = observers /\ obsValue' = obsValue]_vars

\* C36: an observer that removes itself (or another observer) inside its
\* callback does not prevent the remaining observers from being notified in
\* the same pass: every observer registered when the set began and still
\* registered when its turn comes is invoked exactly once for that set.
\* Stated for the passes during which observers were only removed.
C36_RemovalKeepsOthers ==
    (/\ obsFrames # <<>> /\ PassDone(Top(obsFrames))
     /\ Len(observers) < Len(Top(obsFrames).began)
     /\ \A i \in 1..Len(observers) : Contains(Top(obsFrames).began, observers[i])) =>
        \A i \in 1..Len(observers) :
            \E j \in 1..Len(Top(obsFrames).called) :
                /\ Top(obsFrames).called[j] = observers[i]
                /\ \A k \in 1..Len(Top(obsFrames).called) :
                       Top(obsFrames).called[k] = observers[i] => k = j

\* C25: at the moment an observer is invoked with argument v, reading the
\* Observable returns v, for every observer of every pass, including passes
\* of sets made from inside an observer.
C25_ObserverSeesItsArgument ==
    ObsHasNext => obsValue = Top(obsFrames).new

\* what the code keeps of C25: the first observer of a pass, and every
\* observer of a pass in which no observer set the value, sees its argument
C25_FirstObserverSeesItsArgument ==
    ObsHasNext /\ Top(obsFrames).idx = 0 /\ Top(obsFrames).called = <<>> =>
        obsValue = Top(obsFrames).new

(***************************************************************************)
(* Button sampler: RaspberryPi.update_button_states polled by              *)
(* HardwareManager.update, for one channel (the code treats the eight      *)
(* channels alike and independently).                                      *)
(***************************************************************************)
MaxPolls == 5           \* polls per behaviour

button_debounce_ms == 100
StartTime == 1000       \* the clock at start-up, ms (any value above the debounce interval)
PollIntervals == {40, 50, 60}   \* ms between two polls

NoEdge == [time |-> -1, qualified |-> FALSE]

\* history: polls made; press transitions seen by the sampler; qualifying
\* edges (raw callback invocations are counted apart); events published by
\* the manager; the last two press transitions seen by the sampler
InitBtn ==
    /\ now = StartTime
    /\ hwButton = FALSE
    /\ lastPress = 0
    /\ hwCallback = FALSE
    /\ mgrButton = FALSE
    /\ btnLog = [polls |-> 0, edges |-> 0, qualifying |-> 0, rawCalls |-> 0,
                 pressEvents |-> 0, releaseEvents |-> 0,
                 prevEdge |-> NoEdge, lastEdge |-> NoEdge, raised |-> FALSE]

\* line 171: the sampler sees a press transition
PressTransition(state, old) == state /\ ~old

\* line 173: enough time has passed since the last qualifying press
DebounceOk(t, last) == t - last > button_debounce_ms

\* line 181: the state the sampler stores and returns after a poll
Stored(state, old, qualifies) == state

\* RaspberryPi.register_button_callback
RegisterButtonCallback ==
    /\ ~hwCallback
    /\ hwCallback' = TRUE
    /\ UNCHANGED <<now, hwButton, lastPress, mgrButton, btnLog>>

\* HardwareManager.update, lines 99 and 105: the events published for a
\* channel whose snapshot is new and whose state kept by the manager is old
PressEvent(new, old) == new /\ ~old
ReleaseEvent(new, old) == ~new /\ old

\* line 112: the state the manager keeps for the channel after the diff
ManagerStateKept(new, old) == old
ManagerState(new, old) == new

\* one HardwareManager.update: dt ms after the previous one the line is read
\* as pressed or not; update_button_states runs (lines 154-183), then the
\* manager compares the returned snapshot with its own (lines 96-112). A
\* registered callback that raises (line 178) ends update_button_states
\* before line 181; the error is caught by the manager (lines 126-127), which
\* then has no snapshot to compare
Poll(dt, pressed, raises) ==
    /\ btnLog.polls < MaxPolls
    /\ hw_initialized
    /\ LET t == now + dt
           edge == PressTransition(pressed, hwButton)
           qualifies == edge /\ DebounceOk(t, lastPress)
           aborted == qualifies /\ hwCallback /\ raises
           snapshot == Stored(pressed, hwButton, qualifies)
           pressEv == ~aborted /\ PressEvent(snapshot, mgrButton)
           releaseEv == ~aborted /\ ReleaseEvent(snapshot, mgrButton)
       IN /\ raises => qualifies /\ hwCallback
          /\ now' = t
          /\ lastPress' = IF qualifies THEN t ELSE lastPress
          /\ hwButton' = IF aborted THEN hwButton ELSE snapshot
          /\ mgrButton' = IF aborted THEN mgrButton ELSE ManagerState(snapshot, mgrButton)
          /\ btnLog' = [polls |-> btnLog.polls + 1,
                        edges |-> btnLog.edges + (IF edge THEN 1 ELSE 0),
                        qualifying |-> btnLog.qualifying + (IF qualifies THEN 1 ELSE 0),
                        rawCalls |-> btnLog.rawCalls +
                                     (IF qualifies /\ hwCallback THEN 1 ELSE 0),
                        pressEvents |-> btnLog.pressEvents + (IF pressEv THEN 1 ELSE 0),
                        releaseEvents |-> btnLog.releaseEvents + (IF releaseEv THEN 1 ELSE 0),
                        prevEdge |-> IF edge THEN btnLog.lastEdge ELSE btnLog.prevEdge,
                        lastEdge |-> IF edge THEN [time |-> t, qualified |-> qualifies]
                                     ELSE btnLog.lastEdge,
                        raised |-> aborted]
    /\ UNCHANGED hwCallback

NextBtn ==
    \/ RegisterButtonCallback
    \/ \E dt \in PollIntervals, pressed, raises \in BOOLEAN : Poll(dt, pressed, raises)

(***************************************************************************)
(* Button sampler: properties                                              *)
(***************************************************************************)
\* C6: of two successive press transitions of a channel, the first being a
\* qualifying edge, the second is a qualifying edge exactly when it is observed
\* 100 ms or more after the first (less than 100 ms apart: one qualifying edge;
\* 100 ms or more apart, 100 ms included: two).
C6_DebounceBoundary ==
    (btnLog.prevEdge.qualified /\ btnLog.lastEdge.time # -1) =>
        (btnLog.lastEdge.qualified
            <=> btnLog.lastEdge.time - btnLog.prevEdge.time >= button_debounce_ms)

\* what the code does: the second is a qualifying edge exactly when it is
\* observed more than 100 ms after the first
C6_StrictlyMore ==
    (btnLog.prevEdge.qualified /\ btnLog.lastEdge.time # -1) =>
        (btnLog.lastEdge.qualified
            <=> btnLog.lastEdge.time - btnLog.prevEdge.time > button_debounce_ms)

\* two press transitions exactly 100 ms apart
C6_Witness ==
    /\ btnLog.prevEdge.qualified
    /\ btnLog.lastEdge.time - btnLog.prevEdge.time = button_debounce_ms

\* C7: after any sequence of polls the number of button_press events published
\* for the channel equals the number of qualifying press edges, and the raw
\* callback was invoked for no other edge.
C7_NoEventOnSuppressedEdge ==
    /\ btnLog.pressEvents = btnLog.qualifying
    /\ btnLog.rawCalls <= btnLog.qualifying

C23_RawStateStored ==
    (btnLog.lastEdge # NoEdge /\ btnLog.lastEdge.time = now /\ ~btnLog.raised) => hwButton

\* C37: for a channel and any sequence of ticks and raw line values, the
\* button_press and button_release events published by the tick's snapshot
\* diff strictly alternate, starting with a press: never two presses without
\* a release between them, never a release before a press.
C37_AlternateInv ==
    /\ btnLog.pressEvents - btnLog.releaseEvents = (IF mgrButton THEN 1 ELSE 0)
C37_AlternateStep ==
    /\ btnLog'.pressEvents > btnLog.pressEvents =>
          /\ btnLog.pressEvents = btnLog.releaseEvents
          /\ btnLog'.pressEvents = btnLog.pressEvents + 1
          /\ btnLog'.releaseEvents = btnLog.releaseEvents
    /\ btnLog'.releaseEvents > btnLog.releaseEvents =>
          /\ btnLog.pressEvents = btnLog.releaseEvents + 1
          /\ btnLog'.releaseEvents = btnLog.releaseEvents + 1
          /\ btnLog'.pressEvents = btnLog.pressEvents
C37_PressReleaseAlternate == [](C37_AlternateInv) /\ [][C37_AlternateStep]_vars

\* press, release, press and release were published
C37_Witness ==
    /\ btnLog.pressEvents = 2 /\ btnLog.releaseEvents = 2 /\ ~mgrButton

\* the half of C7 the code keeps: the raw callback is invoked for qualifying
\* edges only
C7_RawCallbackDebounced == btnLog.rawCalls <= btnLog.qualifying

(***************************************************************************)
(* Display driver: ST7789 (hardware_interface.py)                          *)
(***************************************************************************)
width == 240
height == 240

\* what the driver puts on the bus: the level of the command/data line and
\* the byte (ST7789.command, ST7789.data)
Cmd(b) == <<0, b>>
Dat(b) == <<1, b>>

\* bit operations on the low n bits
RECURSIVE BitAndN(_, _, _)
BitAndN(a, b, n) ==
    IF n = 0 THEN 0
    ELSE (IF a % 2 = 1 /\ b % 2 = 1 THEN 1 ELSE 0) + 2 * BitAndN(a \div 2, b \div 2, n - 1)
RECURSIVE BitOrN(_, _, _)
BitOrN(a, b, n) ==
    IF n = 0 THEN 0
    ELSE (IF a % 2 = 1 \/ b % 2 = 1 THEN 1 ELSE 0) + 2 * BitOrN(a \div 2, b \div 2, n - 1)
BitAnd(a, b) == BitAndN(a, b, 8)
BitOr(a, b) == BitOrN(a, b, 8)
RECURSIVE Pow2(_)
Pow2(n) == IF n = 0 THEN 1 ELSE 2 * Pow2(n - 1)
\* numpy right_shift and left_shift on uint8 (the left shift drops the bits
\* shifted out of the byte)
RightShift(a, n) == a \div Pow2(n)
LeftShift8(a, n) == (a * Pow2(n)) % 256
\* numpy add on uint8
Add8(a, b) == (a + b) % 256

\* Init, lines 249-256: the MADCTL value of the stored rotation
Rotations == {0, 90, 180, 270}
rotation_values(r) ==
    CASE r = 0 -> 112
      [] r = 90 -> 16
      [] r = 180 -> 192
      [] r = 270 -> 160
      [] OTHER -> 112

\* Init, lines 258-327: the writes that follow the MADCTL value
InitTail ==
    <<Cmd(58), Dat(5), Cmd(178), Dat(12), Dat(12), Dat(0),
      Dat(51), Dat(51), Cmd(183), Dat(53), Cmd(187), Dat(25),
      Cmd(192), Dat(44), Cmd(194), Dat(1), Cmd(195), Dat(18),
      Cmd(196), Dat(32), Cmd(198), Dat(15), Cmd(208), Dat(164),
      Dat(161), Cmd(224), Dat(208), Dat(4), Dat(13), Dat(17),
      Dat(19), Dat(43), Dat(63), Dat(84), Dat(76), Dat(24),
      Dat(13), Dat(11), Dat(31), Dat(35), Cmd(225), Dat(208),
      Dat(4), Dat(12), Dat(17), Dat(19), Dat(44), Dat(63),
      Dat(68), Dat(81), Dat(47), Dat(31), Dat(31), Dat(32),
      Dat(35), Cmd(33), Cmd(17), Cmd(41)>>

\* Init, lines 239-327, after module_init and reset
InitSequenceSleepOutLast(r) ==
    <<Cmd(54), Dat(rotation_values(r))>> \o SubSeq(InitTail, 1, Len(InitTail) - 2)
                                         \o <<Cmd(41), Cmd(17)>>
InitSequence(r) == <<Cmd(54), Dat(rotation_values(r))>> \o InitTail

\* SetWindows, lines 331-348
SetWindowsAsIs(x0, y0, x1, y1) ==
    <<Cmd(42), Dat(0), Dat(BitAnd(x0, 255)), Dat(0), Dat(BitAnd(x1, 255)),
      Cmd(43), Dat(0), Dat(BitAnd(y0, 255)), Dat(0), Dat(BitAnd(y1, 255)),
      Cmd(44)>>
SetWindows(x0, y0, x1, y1) ==
    <<Cmd(42), Dat(0), Dat(BitAnd(x0, 255)), Dat(0), Dat(BitAnd(x1 - 1, 255)),
      Cmd(43), Dat(0), Dat(BitAnd(y0, 255)), Dat(0), Dat(BitAnd(y1 - 1, 255)),
      Cmd(44)>>

\* ShowImage, lines 359-369: the angle the frame is rotated by (0: not rotated)
rot_degreesSame(r) == r
rot_degrees(r) ==
    IF r # 0 /\ r % 360 # 0
    THEN CASE r = 90 -> 270
           [] r = 180 -> 180
           [] r = 270 -> 90
           [] OTHER -> 0
    ELSE 0

\* ShowImage, lines 374-377: the two bytes of a pixel
PackHiShift4(r, g) == Add8(BitAnd(r, 248), RightShift(g, 4))
PackHi(r, g) == Add8(BitAnd(r, 248), RightShift(g, 5))
PackLoNoMask(g, b) == Add8(LeftShift8(g, 3), RightShift(b, 3))
PackLo(g, b) == Add8(BitAnd(LeftShift8(g, 3), 224), RightShift(b, 3))

\* reset(), lines 225-232: the reset line goes high, low, high; in the
\* sequence of writes of an operation the pulse is the entry ResetPulse
ResetPulse == <<-1, 0>>

\* time.sleep(0.01), lines 228, 230 and 232, in milliseconds
RESET_HOLD_MS == 10

\* reset(): the levels driven on the reset line and the time each is held
ResetTrace == <<<<1, RESET_HOLD_MS>>, <<0, RESET_HOLD_MS>>, <<1, RESET_HOLD_MS>>>>

\* lines 383 and 403: the step of the bulk loop and the length of its slices
CHUNK == 4096

\* len(pix) of line 378 (a width x height x 2 array, flattened) and
\* len(_buffer) of line 400
StreamLength == width * height * 2

Min(a, b) == IF a < b THEN a ELSE b

\* pix[i:i+4096]: the end of the slice that starts at i, in a list of n bytes
SliceEndNext(i, n) == Min(i + CHUNK + 1, n)
SliceEnd(i, n) == Min(i + CHUNK, n)

\* lines 383-384 and 403-404: for i in range(0, n, 4096), one write of the
\* slice [i:i+4096]; every write is recorded by its offset and length
RECURSIVE ChunksFrom(_, _)
ChunksFrom(i, n) ==
    IF i >= n THEN <<>>
    ELSE <<[off |-> i, len |-> SliceEnd(i, n) - i]>> \o ChunksFrom(i + CHUNK, n)

\* lines 382 and 402: the selector is driven high before the bulk loop (dc is
\* the level the window sequence left)
BulkSelectorKept(dc) == dc
BulkSelector(dc) == 1

\* the bulk loop: the chunks of n bytes written with the selector at level
\* dc; fill is the value of every byte (clear) or Pixels (the frame's bytes)
Pixels == -1
BulkWrite(dc, n, fill) ==
    LET c == ChunksFrom(0, n) IN
    [k \in 1..Len(c) |-> [dc |-> dc, off |-> c[k].off, len |-> c[k].len, fill |-> fill]]

\* the fill byte of clear(), line 400
ClearFill == 255

\* the level of the command/data line after the writes w
DcAfter(w, dc) == IF w = <<>> THEN dc ELSE w[Len(w)][1]

\* inputs: frame sizes, colour components, window coordinates, arguments of
\* set_rotation, and the outcome of the bus writes of an operation
FrameSizes == {<<240, 240>>, <<240, 239>>, <<320, 240>>}
FramePixels == {<<248, 252, 248>>, <<255, 36, 7>>}
Components == {0, 7, 8, 36, 128, 248, 252, 255}
Coords == {0, 240, 257}
RotationArgs == {0, 90, 180, 270, 45, 360}
BusOutcomes == {"ok", "fail"}

NoOp == [op |-> "none", arg |-> <<>>, result |-> "none", wire |-> <<>>, prerot |-> 0,
         before |-> 0, px |-> <<>>, reset |-> <<>>, stream |-> <<>>]

\* before ST7789() is constructed; the output lines start low
DispOff == [built |-> FALSE, rotation |-> 0, dc |-> 0, rst |-> 0,
            initialized |-> FALSE, madctl |-> -1]
InitDisp ==
    /\ disp = DispOff
    /\ dispLog = [NoOp EXCEPT !.before = DispOff]

\* ST7789.__init__, lines 199-213, with the rotation of the configuration
ST7789Construct(r) ==
    /\ ~disp.built
    /\ disp' = [disp EXCEPT !.built = TRUE, !.rotation = r]
    /\ dispLog' = [NoOp EXCEPT !.op = "construct", !.arg = <<r>>, !.before = DispOff]

\* Init(), lines 234-329, on driver state d: the reset pulse, then the
\* sequence; a failing bus raises at the first write (selector already low) and
\* leaves the panel reset
InitEffect(d, io) ==
    IF io = "ok"
    THEN [d |-> [d EXCEPT !.rst = 1, !.dc = 0, !.initialized = TRUE,
                          !.madctl = rotation_values(d.rotation)],
          wire |-> <<ResetPulse>> \o InitSequence(d.rotation), raised |-> FALSE]
    ELSE [d |-> [d EXCEPT !.rst = 1, !.dc = 0, !.initialized = FALSE, !.madctl = -1],
          wire |-> <<ResetPulse>>, raised |-> TRUE]

DisplayInit(io) ==
    /\ disp.built
    /\ LET e == InitEffect(disp, io) IN
       /\ disp' = e.d
       /\ dispLog' = [NoOp EXCEPT !.op = "init", !.wire = e.wire, !.before = DispOff,
                                  !.reset = ResetTrace,
                                  !.result = IF e.raised THEN "IOError" ELSE "ok"]

\* SetWindows called with arbitrary coordinates
SetWindowsCall(x0, y0, x1, y1) ==
    /\ disp.built
    /\ LET w == SetWindows(x0, y0, x1, y1) IN
       /\ disp' = [disp EXCEPT !.dc = DcAfter(w, @)]
       /\ dispLog' = [NoOp EXCEPT !.op = "set_window", !.arg = <<x0, y0, x1, y1>>,
                                  !.wire = w, !.result = "ok", !.before = DispOff]

\* ShowImage, lines 353-356: the size test
DimensionsOkWidthOnly(w, h) == w = width
DimensionsOk(w, h) == w = width /\ h = height

\* ShowImage, lines 372-378: the bytes of the pixel stream, high byte first
PixelBytes(px) == <<PackHi(px[1], px[2]), PackLo(px[2], px[3])>>

\* the conversion of lines 372-378 applied to one pixel
PackPixel(r, g, b) ==
    /\ dispLog' = [NoOp EXCEPT !.op = "pack", !.px = <<r, g, b>>,
                               !.wire = PixelBytes(<<r, g, b>>), !.before = DispOff]
    /\ UNCHANGED disp

NextPix == \E r, g, b \in Components : PackPixel(r, g, b)

\* ShowImage, lines 350-384, for a frame of size w x h whose pixels are px:
\* the model transmits the two bytes of one pixel for the pixel stream
ShowImage(w, h, px, io) ==
    /\ disp.built
    /\ IF ~DimensionsOk(w, h)
       THEN /\ dispLog' = [NoOp EXCEPT !.op = "show", !.arg = <<w, h>>,
                                       !.result = "ValueError", !.before = disp]
            /\ UNCHANGED disp
       ELSE IF io = "ok"
       THEN LET win == SetWindows(0, 0, width, height)
                sel == BulkSelector(DcAfter(win, disp.dc))
                bytes == win \o <<<<sel, PixelBytes(px)[1]>>, <<sel, PixelBytes(px)[2]>>>>
            IN /\ disp' = [disp EXCEPT !.dc = sel]
               /\ dispLog' = [NoOp EXCEPT !.op = "show", !.arg = <<w, h>>, !.px = px,
                                          !.wire = bytes, !.result = "ok",
                                          !.stream = BulkWrite(sel, StreamLength, Pixels),
                                          !.prerot = rot_degrees(disp.rotation),
                                          !.before = disp]
       ELSE /\ disp' = [disp EXCEPT !.dc = 0]
            /\ dispLog' = [NoOp EXCEPT !.op = "show", !.arg = <<w, h>>,
                                       !.result = "IOError",
                                       !.prerot = rot_degrees(disp.rotation),
                                       !.before = disp]

\* clear(), lines 398-404
Clear(io) ==
    /\ disp.built
    /\ IF io = "ok"
       THEN LET win == SetWindows(0, 0, width, height)
                sel == BulkSelector(DcAfter(win, disp.dc))
            IN /\ disp' = [disp EXCEPT !.dc = sel]
               /\ dispLog' = [NoOp EXCEPT !.op = "clear", !.wire = win, !.result = "ok",
                                          !.stream = BulkWrite(sel, StreamLength, ClearFill),
                                          !.before = DispOff]
       ELSE /\ disp' = [disp EXCEPT !.dc = 0]
            /\ dispLog' = [NoOp EXCEPT !.op = "clear", !.result = "IOError",
                                       !.before = DispOff]

\* set_rotation, line 389: the accepted values
ValidRotationMod(v) == v % 90 = 0
ValidRotation(v) == v \in Rotations

\* set_rotation, lines 386-396
SetRotation(v, io) ==
    /\ disp.built
    /\ IF ValidRotation(v)
       THEN LET e == InitEffect([disp EXCEPT !.rotation = v], io) IN
            /\ disp' = e.d
            /\ dispLog' = [NoOp EXCEPT !.op = "set_rotation", !.arg = <<v>>,
                                       !.wire = e.wire, !.before = disp,
                                       !.reset = ResetTrace,
                                       !.result = IF e.raised THEN "IOError" ELSE "True"]
       ELSE /\ UNCHANGED disp
            /\ dispLog' = [NoOp EXCEPT !.op = "set_rotation", !.arg = <<v>>,
                                       !.result = "False", !.before = disp]

NextDisp ==
    \/ \E r \in Rotations : ST7789Construct(r)
    \/ \E io \in BusOutcomes : DisplayInit(io)
    \/ \E x0, y0, x1, y1 \in Coords : SetWindowsCall(x0, y0, x1, y1)
    \/ \E sz \in FrameSizes, px \in FramePixels, io \in BusOutcomes :
          ShowImage(sz[1], sz[2], px, io)
    \/ \E io \in BusOutcomes : Clear(io)
    \/ \E v \in RotationArgs, io \in BusOutcomes : SetRotation(v, io)

(***************************************************************************)
(* Application: PeTTraCApplication (app.py) over HardwareManager           *)
(* (hardware_abstraction.py) and the display link (hardware_interface.py)  *)
(***************************************************************************)
MaxTicks == 2           \* iterations of the run loop per behaviour
MaxRequests == 2        \* calls of shutdown() made by screen code per behaviour
MaxChanges == 2         \* changes of current_screen per behaviour

ScreenNames == {"desktop", "menu", "settings"}
\* arguments of load_screen: the names above and one that is not in SCREENS
LoadNames == ScreenNames \cup {"nowhere"}
MaxLoads == 4           \* direct calls of load_screen per behaviour

\* the link after initialize_hardware (Init, clear, bl_DutyCycle): bus open,
\* reset line high, command/data line high (pixel data was sent last),
\* backlight driven; xfers counts the transfers that put bytes on the bus
LinkReady == [spi |-> "open", rst |-> 1, dc |-> 1, bl |-> "on", xfers |-> 0]

NoCall == [made |-> FALSE, afterDone |-> FALSE, init |-> FALSE, before |-> LinkReady,
           after |-> LinkReady, raised |-> FALSE]

\* history: calls of HardwareManager.shutdown, those that passed its guard
\* (hwRuns), those that reached the end of module_exit (hwDone), the last such
\* call, the hooks run by load_screen, the ticks begun, the measured duration
\* and the sleep of every paced tick, and the tick in which shutdown() was
\* first called from inside a tick (0: never)
InitApp ==
    /\ pc = "start"
    /\ running = FALSE
    /\ stateScreen = "desktop"
    /\ activeScreen = "desktop"
    /\ screens = {"desktop"}
    /\ hw_initialized \in BOOLEAN
    /\ link = LinkReady
    /\ appLog = [hwCalls |-> 0, hwRuns |-> 0, hwDone |-> 0, lastCall |-> NoCall,
                 hooks |-> <<>>, ticks |-> 0, requests |-> 0, changes |-> 0,
                 exitCode |-> -1, pacing |-> <<>>, stoppedAt |-> 0,
                 frames |-> <<>>, renderRaised |-> FALSE,
                 built |-> [n \in LoadNames |-> IF n = "desktop" THEN 1 ELSE 0],
                 loads |-> 0]

\* a bulk transfer (ST7789.ShowImage lines 381-384, ST7789.clear lines
\* 400-404): SetWindows starts with a command byte (selector low), the pixel
\* bytes follow with the selector high.  A write on the closed bus raises at
\* the first byte; io is the outcome of the transfer on an open bus.
Transfer(l, io) ==
    IF l.spi = "closed" THEN [link |-> [l EXCEPT !.dc = 0], raised |-> TRUE]
    ELSE IF io = "ok" THEN [link |-> [l EXCEPT !.dc = 1, !.xfers = @ + 1], raised |-> FALSE]
    ELSE IF io = "fail_cmd" THEN [link |-> [l EXCEPT !.dc = 0], raised |-> TRUE]
    ELSE [link |-> [l EXCEPT !.dc = 1, !.xfers = @ + 1], raised |-> TRUE]

IoOutcomes == {"ok", "fail_cmd", "fail_data"}

\* RaspberryPi.module_exit, lines 144-152: the bus is closed, the reset line
\* driven high, the selector low and the backlight device closed
ModuleExitKeepsBus(l) == [l EXCEPT !.rst = 1, !.dc = 0, !.bl = "closed"]
ModuleExit(l) == [l EXCEPT !.spi = "closed", !.rst = 1, !.dc = 0, !.bl = "closed"]

\* HardwareManager.shutdown, lines 179-190
HwShutdownNoCatch(l, init, io) ==
    IF ~init THEN [link |-> l, ran |-> FALSE, done |-> FALSE, raised |-> FALSE]
    ELSE LET t == Transfer(l, io) IN
         IF t.raised THEN [link |-> t.link, ran |-> TRUE, done |-> FALSE, raised |-> TRUE]
         ELSE [link |-> ModuleExit(t.link), ran |-> TRUE, done |-> TRUE, raised |-> FALSE]
HwShutdown(l, init, io) ==
    IF ~init THEN [link |-> l, ran |-> FALSE, done |-> FALSE, raised |-> FALSE]
    ELSE LET t == Transfer(l, io) IN
         IF t.raised THEN [link |-> t.link, ran |-> TRUE, done |-> FALSE, raised |-> FALSE]
         ELSE [link |-> ModuleExit(t.link), ran |-> TRUE, done |-> TRUE, raised |-> FALSE]

\* the history after a call of HardwareManager.shutdown with result r
ShutdownLog(log, r) ==
    [log EXCEPT !.hwCalls = @ + 1,
                !.hwRuns = @ + (IF r.ran THEN 1 ELSE 0),
                !.hwDone = @ + (IF r.done THEN 1 ELSE 0),
                !.lastCall = [made |-> TRUE, afterDone |-> log.hwDone >= 1,
                              init |-> hw_initialized, before |-> link,
                              after |-> r.link, raised |-> r.raised]]

\* PeTTraCApplication.shutdown, lines 192-200
AppShutdown(io) ==
    LET r == HwShutdown(link, hw_initialized, io) IN
    /\ running' = FALSE
    /\ link' = r.link
    /\ appLog' = ShutdownLog(appLog, r)

\* PeTTraCApplication.load_screen, lines 72-88: the result of loading name on
\* the application fields a
LoadScreenRebuild(a, name) ==
    [active |-> name,
     cache |-> a.cache \cup {name},
     hooks |-> a.hooks \o <<<<"deactivate", a.active>>>>
               \o <<<<"construct", name>>>>
               \o <<<<"activate", name>>>>]
LoadScreen(a, name) ==
    [active |-> name,
     cache |-> a.cache \cup {name},
     hooks |-> a.hooks \o <<<<"deactivate", a.active>>>>
               \o (IF name \in a.cache THEN <<>> ELSE <<<<"construct", name>>>>)
               \o <<<<"activate", name>>>>]

\* the number of screens constructed under each name (get_screen, screens.py
\* lines 1029-1035, called at line 80), after the hooks h have run
Constructed(built, h) ==
    [n \in LoadNames |->
        built[n] + Cardinality({i \in 1..Len(h) : h[i] = <<"construct", n>>})]

\* load_screen(name) called on the constructed application
LoadScreenCall(name) ==
    /\ appLog.loads < MaxLoads
    /\ LET a == LoadScreen([active |-> activeScreen, cache |-> screens,
                            hooks |-> <<>>], name)
       IN /\ activeScreen' = a.active
          /\ screens' = a.cache
          /\ appLog' = [appLog EXCEPT !.hooks = a.hooks, !.loads = @ + 1,
                                      !.built = Constructed(@, a.hooks)]
    /\ UNCHANGED <<pc, running, stateScreen, hw_initialized, link>>

NextScreens == \E n \in LoadNames : LoadScreenCall(n)

\* PeTTraCApplication._on_screen_change, lines 90-94: new is the screen named
\* by the event, value is what AppState.current_screen.value returns
OnScreenChange(a, new, value) ==
    IF new # value THEN LoadScreen(a, new) ELSE a

\* run(), line 165
Run ==
    /\ pc = "start"
    /\ running' = TRUE
    /\ pc' = "loop"
    /\ UNCHANGED <<stateScreen, activeScreen, screens, hw_initialized, link, appLog>>

\* while self.running, line 170
LoopCheck ==
    /\ pc = "loop"
    /\ IF running
       THEN /\ appLog.ticks < MaxTicks
            /\ pc' = "update"
            /\ appLog' = [appLog EXCEPT !.ticks = @ + 1]
       ELSE /\ pc' = "finally"
            /\ UNCHANGED appLog
    /\ UNCHANGED <<running, stateScreen, activeScreen, screens, hw_initialized, link>>

\* screen code run by the update phase sets app_state.current_screen.value:
\* the setter (state_manager.py 25-31) stores the value, then notifies
\* AppState._on_screen_change (99-101), which publishes screen_change, which
\* the bus delivers to PeTTraCApplication._on_screen_change
ScreenChangeRequest(name) ==
    /\ pc = "update"
    /\ appLog.changes < MaxChanges
    /\ Changed(name, stateScreen)
    /\ stateScreen' = name
    /\ LET a == OnScreenChange([active |-> activeScreen, cache |-> screens,
                                hooks |-> <<>>], name, stateScreen')
       IN /\ activeScreen' = a.active
          /\ screens' = a.cache
          /\ appLog' = [appLog EXCEPT !.hooks = a.hooks, !.changes = @ + 1,
                                      !.built = Constructed(@, a.hooks)]
    /\ UNCHANGED <<pc, running, hw_initialized, link>>

\* screen code run by the tick calls PeTTraCApplication.shutdown()
ShutdownRequest(io) ==
    /\ pc \in {"update", "render"}
    /\ appLog.requests < MaxRequests
    /\ LET r == HwShutdown(link, hw_initialized, io) IN
       /\ running' = FALSE
       /\ link' = r.link
       /\ appLog' = [ShutdownLog(appLog, r) EXCEPT
                         !.requests = @ + 1,
                         !.stoppedAt = IF @ = 0 THEN appLog.ticks ELSE @]
    /\ UNCHANGED <<pc, stateScreen, activeScreen, screens, hw_initialized>>

\* code run by the tick clears the running flag
StopRequest ==
    /\ pc \in {"update", "render"}
    /\ running
    /\ running' = FALSE
    /\ UNCHANGED <<pc, stateScreen, activeScreen, screens, hw_initialized, link, appLog>>

\* update(), lines 151-161, returns
UpdateDone ==
    /\ pc = "update"
    /\ pc' = "render"
    /\ UNCHANGED <<running, stateScreen, activeScreen, screens, hw_initialized, link, appLog>>

\* HardwareManager.render_to_display, lines 129-139: the frame is handed to
\* ShowImage, whose errors are caught and logged; head is the first write of
\* the transmission (empty if none reached the bus)
RenderToDisplayNoCatch(l, init, io) ==
    IF ~init THEN [link |-> l, outcome |-> "off", head |-> <<>>, raised |-> FALSE]
    ELSE LET t == Transfer(l, io) IN
         [link |-> t.link,
          outcome |-> IF t.raised THEN "dropped" ELSE "sent",
          head |-> IF l.spi = "open" /\ io # "fail_cmd"
                   THEN SetWindows(0, 0, width, height) ELSE <<>>,
          raised |-> t.raised]
RenderToDisplay(l, init, io) ==
    IF ~init THEN [link |-> l, outcome |-> "off", head |-> <<>>, raised |-> FALSE]
    ELSE LET t == Transfer(l, io) IN
         [link |-> t.link,
          outcome |-> IF t.raised THEN "dropped" ELSE "sent",
          head |-> IF l.spi = "open" /\ io # "fail_cmd"
                   THEN SetWindows(0, 0, width, height) ELSE <<>>,
          raised |-> FALSE]

\* render(), lines 96-120; an error that leaves render_to_display leaves
\* render() and run()'s loop as well
Render(io) ==
    /\ pc = "render"
    /\ LET r == RenderToDisplay(link, hw_initialized, io) IN
       /\ link' = r.link
       /\ pc' = IF r.raised THEN "finally" ELSE "sleep"
       /\ appLog' = [appLog EXCEPT
              !.frames = Append(@, [io |-> io, bus |-> link.spi, outcome |-> r.outcome,
                                    head |-> r.head]),
              !.renderRaised = @ \/ r.raised]
    /\ UNCHANGED <<running, stateScreen, activeScreen, screens, hw_initialized>>

\* line 30, in ms
UPDATE_INTERVAL == 50

\* measured durations of update() plus render(), ms (line 180)
Elapsed == {20, 50, 70}

Max0(x) == IF x > 0 THEN x ELSE 0

\* line 181: the sleep of a tick that took e ms; hist is the pacing history of
\* the earlier ticks
SleepTimeCatchUp(e, hist) ==
    LET over == IF hist = <<>> THEN 0
                ELSE Max0(hist[Len(hist)].elapsed - UPDATE_INTERVAL)
    IN Max0(UPDATE_INTERVAL - e - over)
SleepTime(e, hist) == Max0(UPDATE_INTERVAL - e)

\* lines 180-183
Sleep(e) ==
    /\ pc = "sleep"
    /\ pc' = "loop"
    /\ appLog' = [appLog EXCEPT !.pacing =
                     Append(@, [elapsed |-> e, sleep |-> SleepTime(e, @)])]
    /\ UNCHANGED <<running, stateScreen, activeScreen, screens, hw_initialized, link>>

\* KeyboardInterrupt, or an error raised by the update or render phase:
\* lines 185-188 lead to the finally clause
Abort ==
    /\ pc \in {"loop", "update", "render", "sleep"}
    /\ pc' = "finally"
    /\ UNCHANGED <<running, stateScreen, activeScreen, screens, hw_initialized, link, appLog>>

\* finally: self.shutdown(), lines 189-190
Finally(io) ==
    /\ pc = "finally"
    /\ AppShutdown(io)
    /\ pc' = "done"
    /\ UNCHANGED <<stateScreen, activeScreen, screens, hw_initialized>>

\* main(), lines 205-208: run() has returned, the entry point returns 0 (the
\* except clause of lines 209-211 is reached only by an error that escapes the
\* constructor or run(); HardwareManager.initialize lets none escape)
MainReturn ==
    /\ pc = "done"
    /\ pc' = "exited"
    /\ appLog' = [appLog EXCEPT !.exitCode = 0]
    /\ UNCHANGED <<running, stateScreen, activeScreen, screens, hw_initialized, link>>

NextApp ==
    \/ Run
    \/ LoopCheck
    \/ \E n \in ScreenNames : ScreenChangeRequest(n)
    \/ \E io \in IoOutcomes : ShutdownRequest(io)
    \/ StopRequest
    \/ UpdateDone
    \/ \E io \in IoOutcomes : Render(io)
    \/ \E e \in Elapsed : Sleep(e)
    \/ Abort
    \/ \E io \in IoOutcomes : Finally(io)
    \/ MainReturn

(***************************************************************************)
(* Application: properties                                                 *)
(***************************************************************************)
\* C8: after current_screen is changed to a name other than the active
\* screen's, the active screen is the screen of that name, its predecessor's
\* deactivate hook having run before the new screen's activate hook: after
\* every completed screen_change dispatch the active screen corresponds to the
\* current_screen value.
C8_ActiveScreenFollowsState ==
    /\ activeScreen = stateScreen
    /\ appLog.changes > 0 =>
         /\ appLog.hooks # <<>>
         /\ Head(appLog.hooks)[1] = "deactivate"
         /\ appLog.hooks[Len(appLog.hooks)] = <<"activate", stateScreen>>

\* what the code does: the active screen never changes after start-up
C8_ActiveScreenNeverChanges ==
    /\ activeScreen = "desktop"
    /\ screens = {"desktop"}
    /\ appLog.hooks = <<>>

\* C9: when the run loop has terminated, the hardware shutdown routine has
\* been executed exactly once.
C9_ShutdownExactlyOnce == pc = "done" => appLog.hwRuns = 1

\* C10: a call of the hardware shutdown made after a completed shutdown leaves
\* the bus and the levels of the output lines as they were and raises nothing;
\* a call made when hardware initialization never completed does the same.
C10_ShutdownIdempotent ==
    LET c == appLog.lastCall IN
    c.made =>
        /\ ~c.raised
        /\ c.afterDone => c.after = c.before
        /\ ~c.init => c.after = c.before

\* a second call of the hardware shutdown, made after a completed one
C10_Witness ==
    /\ appLog.lastCall.made /\ appLog.lastCall.afterDone /\ appLog.lastCall.init
    /\ appLog.hwCalls >= 2

(***************************************************************************)
(* Display driver: properties                                              *)
(***************************************************************************)
\* C15: show(frame) with a frame of the wrong width or height fails with a
\* dimension error and has no effect: nothing is sent, the command/data line
\* and the stored rotation stay as they were.
C15_DimensionMismatch ==
    (dispLog.op = "show" /\ dispLog.arg # <<240, 240>>) =>
        /\ dispLog.result = "ValueError"
        /\ dispLog.wire = <<>>
        /\ disp.dc = dispLog.before.dc
        /\ disp.rotation = dispLog.before.rotation
        /\ disp = dispLog.before

\* a frame of the wrong height was shown on an initialized display
C15_Witness ==
    /\ dispLog.op = "show" /\ dispLog.arg = <<240, 239>>
    /\ dispLog.result = "ValueError"
    /\ dispLog.before.initialized

\* C16: set_window(x0,y0,x1,y1) emits command 0x2A, data 0, x0 & 0xFF, 0,
\* (x1-1) & 0xFF, command 0x2B, data 0, y0 & 0xFF, 0, (y1-1) & 0xFF, command
\* 0x2C, in this order; set_window(0,0,240,240) emits end bytes 239.
C16_SetWindowBytes ==
    dispLog.op = "set_window" =>
        LET a == dispLog.arg IN
        /\ dispLog.wire =
             << <<0, 42>>, <<1, 0>>, <<1, a[1] % 256>>, <<1, 0>>, <<1, (a[3] - 1) % 256>>,
                <<0, 43>>, <<1, 0>>, <<1, a[2] % 256>>, <<1, 0>>, <<1, (a[4] - 1) % 256>>,
                <<0, 44>> >>
        /\ a = <<0, 0, 240, 240>> =>
             /\ dispLog.wire[5] = <<1, 239>>
             /\ dispLog.wire[10] = <<1, 239>>

\* the full-panel window was set
C16_Witness ==
    /\ dispLog.op = "set_window" /\ dispLog.arg = <<0, 0, 240, 240>>
    /\ Len(dispLog.wire) = 11

\* C17: every pixel (R,G,B) gives two bytes, high first: hi = (R & 0xF8) |
\* (G >> 5) and lo = ((G << 3) & 0xE0) | (B >> 3), both in 0..255; the two bit
\* fields added never overlap, so the sum never carries.
C17_PackBytes ==
    dispLog.op = "pack" =>
        LET r == dispLog.px[1]
            g == dispLog.px[2]
            b == dispLog.px[3]
            hi == dispLog.wire[1]
            lo == dispLog.wire[2]
            gl == BitAnd((g * 8) % 256, 224)
        IN /\ Len(dispLog.wire) = 2
           /\ hi = BitOr(BitAnd(r, 248), g \div 32)
           /\ lo = BitOr(gl, b \div 8)
           /\ hi \in 0..255 /\ lo \in 0..255
           /\ BitAnd(BitAnd(r, 248), g \div 32) = 0
           /\ BitAnd(gl, b \div 8) = 0
           /\ BitAnd(r, 248) + (g \div 32) <= 255
           /\ gl + (b \div 8) <= 255

\* the white pixel was packed
C17_Witness ==
    /\ dispLog.op = "pack" /\ dispLog.px = <<255, 255, 255>>
    /\ dispLog.wire = <<255, 255>>

\* the inverse of the packing: 5 bits of red, 6 of green, 5 of blue
Unpack565(hi, lo) ==
    <<BitAnd(hi, 248), (hi % 8) * 32 + (lo \div 32) * 4, (lo % 32) * 8>>

\* C18: packing followed by unpacking returns (R & 0xF8, G & 0xFC, B & 0xF8),
\* hence the input itself when red and blue are multiples of 8 and green is a
\* multiple of 4.
C18_RoundTrip ==
    dispLog.op = "pack" =>
        LET px == dispLog.px
            back == Unpack565(dispLog.wire[1], dispLog.wire[2])
        IN /\ back = <<BitAnd(px[1], 248), BitAnd(px[2], 252), BitAnd(px[3], 248)>>
           /\ (px[1] % 8 = 0 /\ px[2] % 4 = 0 /\ px[3] % 8 = 0) => back = px

\* (248,252,248) was packed
C18_Witness ==
    /\ dispLog.op = "pack" /\ dispLog.px = <<248, 252, 248>>
    /\ Unpack565(dispLog.wire[1], dispLog.wire[2]) = <<248, 252, 248>>

OrientationRegister(r) ==
    CASE r = 0 -> 112 [] r = 90 -> 16 [] r = 180 -> 192 [] r = 270 -> 160
ComplementAngle(r) ==
    CASE r = 0 -> 0 [] r = 90 -> 270 [] r = 180 -> 180 [] r = 270 -> 90

\* C19: after set_rotation(r) the init sequence has written the register value
\* of r (0x70, 0x10, 0xC0, 0xA0), every show pre-rotates by the complement
\* angle of the stored rotation, and the register value of an initialized
\* panel is the one of the stored rotation.
C19_RotationTable ==
    /\ (dispLog.op = "set_rotation" /\ dispLog.result = "True") =>
          /\ disp.rotation = dispLog.arg[1]
          /\ disp.madctl = OrientationRegister(dispLog.arg[1])
          /\ <<1, OrientationRegister(dispLog.arg[1])>> = dispLog.wire[3]
    /\ (dispLog.op = "show" /\ dispLog.result = "ok") =>
          /\ dispLog.prerot = ComplementAngle(dispLog.before.rotation)
          /\ dispLog.before.initialized =>
                dispLog.before.madctl = OrientationRegister(dispLog.before.rotation)
    /\ disp.initialized => disp.madctl = OrientationRegister(disp.rotation)

\* a frame was shown after set_rotation(90)
C19_Witness ==
    /\ dispLog.op = "show" /\ dispLog.result = "ok"
    /\ dispLog.before.initialized
    /\ dispLog.before.rotation = 90 /\ dispLog.before.madctl = 16
    /\ dispLog.prerot = 270

\* C20: set_rotation(v) with v in {0,90,180,270} stores v, runs the init
\* sequence again, reset first, and returns success (it returns failure for
\* no such v; it raises only if the bus fails); with any other v it returns
\* failure and changes nothing: no reset pulse, no byte sent.
C20_SetRotation ==
    dispLog.op = "set_rotation" =>
        LET v == dispLog.arg[1] IN
        /\ v \in {0, 90, 180, 270} =>
              /\ dispLog.result \in {"True", "IOError"}
              /\ disp.rotation = v
              /\ dispLog.wire # <<>> /\ dispLog.wire[1] = ResetPulse
              /\ dispLog.result = "True" =>
                    /\ Tail(dispLog.wire) = InitSequence(v)
                    /\ disp.initialized
        /\ v \notin {0, 90, 180, 270} =>
              /\ dispLog.result = "False"
              /\ disp = dispLog.before
              /\ dispLog.wire = <<>>

\* the rotation was changed from 0 to 90
C20_Witness ==
    /\ dispLog.op = "set_rotation" /\ dispLog.arg = <<90>>
    /\ dispLog.result = "True"
    /\ dispLog.before.built /\ dispLog.before.rotation = 0
    /\ disp.rotation = 90

\* the bytes of an operation, without the entry of the reset pulse
Bytes(w) == SelectSeq(w, LAMBDA e : e # ResetPulse)

\* the commands the driver uses and the number of parameter bytes each takes
\* (Init, lines 240-327, and SetWindows, lines 334-348); the memory write 0x2C
\* takes the pixel stream, of any length
Stream == -1
ParamCount(c) ==
    CASE c \in {33, 17, 41} -> 0
      [] c \in {54, 58, 183, 187, 192, 194, 195, 196, 198} -> 1
      [] c = 208 -> 2
      [] c \in {42, 43} -> 4
      [] c = 178 -> 5
      [] c \in {224, 225} -> 14
      [] c = 44 -> Stream
      [] OTHER -> -2

\* every command byte of w is written with the selector low and is followed
\* by its parameter bytes, each written with the selector high; need is the
\* number of parameter bytes the last command still takes
RECURSIVE Framed(_, _)
Framed(w, need) ==
    IF w = <<>> THEN need \in {0, Stream}
    ELSE IF need = Stream THEN Head(w)[1] = 1 /\ Framed(Tail(w), Stream)
    ELSE IF need > 0 THEN Head(w)[1] = 1 /\ Framed(Tail(w), need - 1)
    ELSE /\ Head(w)[1] = 0
         /\ ParamCount(Head(w)[2]) # -2
         /\ Framed(Tail(w), ParamCount(Head(w)[2]))

\* C26: on every byte written to the display link the command/data selector
\* is low if the byte is a command byte and high if it is a parameter or pixel
\* byte, across any sequence of init, set_window, show, clear and set_rotation.
C26_SelectorMatchesByte ==
    /\ Framed(Bytes(dispLog.wire), 0)
    /\ \A k \in 1..Len(dispLog.stream) : dispLog.stream[k].dc = 1
    /\ dispLog.stream # <<>> => Contains(dispLog.wire, Cmd(44)) /\ disp.dc = 1
    /\ dispLog.op = "set_window" => disp.dc = 0

\* the display was cleared after a frame was shown: the pixel stream went out
C26_Witness ==
    /\ dispLog.op = "clear" /\ dispLog.result = "ok"
    /\ disp.initialized /\ disp.dc = 1
    /\ Len(dispLog.stream) > 1 /\ Len(dispLog.wire) = 11

\* an operation that runs Init(): init(), or set_rotation with a valid angle
RunsInit == dispLog.op = "init" \/ (dispLog.op = "set_rotation" /\ dispLog.result # "False")

\* C27: init() performs the reset pulse before any byte is sent: the reset
\* line is driven high, low, high, each level held at least 10 ms, and is high
\* when the first command is sent; the first command is 0x36 with its single
\* data byte, and 0x29 is the last byte of the sequence, after 0x21 and 0x11.
C27_ResetThenSequence ==
    RunsInit =>
        /\ dispLog.wire[1] = ResetPulse
        /\ \A i \in 2..Len(dispLog.wire) : dispLog.wire[i] # ResetPulse
        /\ Len(dispLog.reset) = 3
        /\ dispLog.reset[1][1] = 1 /\ dispLog.reset[2][1] = 0 /\ dispLog.reset[3][1] = 1
        /\ \A i \in 1..3 : dispLog.reset[i][2] >= 10
        /\ disp.rst = 1
        /\ dispLog.result \in {"ok", "True"} =>
              LET w == dispLog.wire n == Len(dispLog.wire) IN
              /\ w[2] = <<0, 54>>
              /\ w[3][1] = 1 /\ w[4][1] = 0
              /\ w[n - 2] = <<0, 33>> /\ w[n - 1] = <<0, 17>> /\ w[n] = <<0, 41>>

\* init() ran to its end on a working bus
C27_Witness ==
    /\ dispLog.op = "init" /\ dispLog.result = "ok"
    /\ Len(dispLog.wire) > 4 /\ dispLog.reset # <<>>

\* C28: every bulk transfer (show and clear) sends, after one window sequence
\* for the full panel, exactly 240*240*2 = 115200 bytes in consecutive chunks
\* of at most 4096 bytes (28 of 4096 and a last one of 512), in stream order,
\* none lost, duplicated or reordered, with no command byte in between; for
\* clear every one of these bytes is 0xFF.
C28_BulkChunks ==
    (dispLog.op \in {"show", "clear"} /\ dispLog.result = "ok") =>
        LET w == dispLog.wire c == dispLog.stream IN
        /\ SubSeq(w, 1, 11) = <<<<0, 42>>, <<1, 0>>, <<1, 0>>, <<1, 0>>, <<1, 239>>,
                                <<0, 43>>, <<1, 0>>, <<1, 0>>, <<1, 0>>, <<1, 239>>,
                                <<0, 44>>>>
        /\ \A i \in 12..Len(w) : w[i][1] = 1
        /\ Len(c) = 29
        /\ c[1].off = 0
        /\ \A k \in 1..28 : c[k].len = 4096 /\ c[k + 1].off = c[k].off + c[k].len
        /\ c[29].len = 512 /\ c[29].off + c[29].len = 115200
        /\ \A k \in 1..29 : c[k].dc = 1
        /\ dispLog.op = "clear" => \A k \in 1..29 : c[k].fill = 255
        /\ dispLog.op = "show" => \A k \in 1..29 : c[k].fill = Pixels

\* a frame of the right size was shown: its last chunk went out
C28_Witness ==
    /\ dispLog.op = "show" /\ dispLog.result = "ok"
    /\ Len(dispLog.stream) = 29 /\ dispLog.stream[29].off = 114688

\* C29: for any window arguments the coordinates sent are clipped to the
\* panel: every start and end coordinate byte emitted by set_window lies in
\* [0, 240).
C29_WindowClipped ==
    dispLog.op = "set_window" =>
        \A i \in {3, 5, 8, 10} : dispLog.wire[i][2] \in 0..(width - 1)

\* what the code keeps of C29: the coordinates are reduced to one byte
C29_WindowMasked ==
    dispLog.op = "set_window" =>
        \A i \in {3, 5, 8, 10} : dispLog.wire[i][2] \in 0..255

(***************************************************************************)
(* Toast: AppState.show_toast / is_toast_visible (state_manager.py) and    *)
(* PeTTraCApplication._render_toast (app.py)                               *)
(***************************************************************************)
MaxClock == 30          \* the clock stops here, tenths of a second

Durations == {5, 10}
ClockSteps == {5, 10}

\* toast_message.value is None
NoToast == [set |-> FALSE, duration |-> 0, start |-> 0]

\* AppState.__init__, line 96
InitToast ==
    /\ toast = NoToast
    /\ clock = 0
    /\ toastLog = [rendered |-> FALSE, drawn |-> FALSE, at |-> 0, toast |-> NoToast,
                   shown |-> 0]

\* show_toast, lines 140-142
ShowToast(d) ==
    /\ toast' = [set |-> TRUE, duration |-> d, start |-> clock]
    /\ toastLog' = [toastLog EXCEPT !.shown = IF @ < 2 THEN @ + 1 ELSE @]
    /\ UNCHANGED clock

\* reset_state, line 159
ResetToast ==
    /\ toast.set
    /\ toast' = NoToast
    /\ UNCHANGED <<clock, toastLog>>

\* time passes
ClockAdvance(dt) ==
    /\ clock + dt <= MaxClock
    /\ clock' = clock + dt
    /\ UNCHANGED <<toast, toastLog>>

\* is_toast_visible, lines 144-150, at time t
IsToastVisibleInclusive(v, t) == v.set /\ (t - v.start) <= v.duration
IsToastVisible(v, t) == v.set /\ (t - v.start) < v.duration

\* _render_toast, lines 122-149: the toast is drawn if it is visible
RenderToast ==
    /\ toastLog' = [toastLog EXCEPT !.rendered = TRUE, !.at = clock, !.toast = toast,
                                   !.drawn = IsToastVisible(toast, clock)]
    /\ UNCHANGED <<toast, clock>>

NextToast ==
    \/ \E d \in Durations : ShowToast(d)
    \/ ResetToast
    \/ \E dt \in ClockSteps : ClockAdvance(dt)
    \/ RenderToast

\* C21: the toast shown at T with duration d is drawn at every time now with
\* now - T < d and at no time with now - T >= d; with no toast shown, none is
\* drawn.
C21_ToastVisibility ==
    toastLog.rendered =>
        LET v == toastLog.toast IN
        /\ (v.set /\ toastLog.at - v.start < v.duration) => toastLog.drawn
        /\ (v.set /\ toastLog.at - v.start >= v.duration) => ~toastLog.drawn
        /\ ~v.set => ~toastLog.drawn
        /\ toastLog.shown = 0 => ~toastLog.drawn

\* a toast of 1.0 s was rendered exactly 1.0 s after it was shown
C21_Witness ==
    /\ toastLog.rendered /\ toastLog.toast.set
    /\ toastLog.toast.duration = 10
    /\ toastLog.at - toastLog.toast.start = 10
    /\ ~toastLog.drawn

(***************************************************************************)
(* Backlight: RaspberryPi.bl_DutyCycle, ST7789.set_brightness              *)
(* (hardware_interface.py), HardwareManager.initialize, _handle_setting_   *)
(* change and _set_brightness (hardware_abstraction.py), and the           *)
(* brightness state AppState.brightness (state_manager.py)                 *)
(***************************************************************************)
\* requested duties and brightness values, in percent
Duties == {-5, 0, 50, 100, 150}
SettingNames == {"brightness", "theme"}
PinOutcomes == {"ok", "fail"}

Max(a, b) == IF a > b THEN a ELSE b

\* bl_DutyCycle, line 132, and set_brightness, line 408: max(0, min(100, duty))
ClampDutyUpperOnly(d) == Min(100, d)
ClampDuty(d) == Max(0, Min(100, d))

NoBlOp == [op |-> "none", arg |-> 0, ret |-> -1, applied |-> FALSE, prev |-> 0]

\* before HardwareManager() is constructed: no backlight device yet (duty 0
\* is the initial value of the PWM device), AppState.brightness is 50
\* (state_manager.py, line 84), the configuration holds its default
InitBl ==
    /\ bl = [started |-> FALSE, display |-> FALSE, hw_initialized |-> FALSE,
             duty |-> 0, brightness |-> 50, saved |-> 50]
    /\ blLog = NoBlOp

\* bl_DutyCycle(d) on backlight state b: the pin is driven with the clamped
\* duty; a closed or failing pin raises and drives nothing
BlDutyCycle(b, d, io) ==
    IF io = "ok" THEN [b |-> [b EXCEPT !.duty = ClampDuty(d)], raised |-> FALSE]
    ELSE [b |-> b, raised |-> TRUE]

\* HardwareManager.__init__ and initialize (hardware_abstraction.py, lines
\* 30-77) over initialize_hardware (hardware_interface.py, lines 544-570):
\* present/cfg is display.brightness of the configuration file, io the
\* outcome of the display's Init. The constructor of the display drives the
\* configured duty (line 59; a missing value raises there), initialize_
\* hardware drives it again (lines 554-558), initialize then drives the
\* brightness state (lines 64-66)
HwInitializeBl(present, cfg, io) ==
    /\ ~bl.started
    /\ IF ~present
       THEN /\ bl' = [bl EXCEPT !.started = TRUE]
            /\ blLog' = [NoBlOp EXCEPT !.op = "initialize", !.arg = bl.brightness,
                                       !.prev = bl.duty]
       ELSE IF io # "ok"
       THEN /\ bl' = [bl EXCEPT !.started = TRUE, !.duty = ClampDuty(cfg), !.saved = cfg]
            /\ blLog' = [NoBlOp EXCEPT !.op = "initialize", !.arg = bl.brightness,
                                       !.prev = bl.duty]
       ELSE LET b1 == BlDutyCycle([bl EXCEPT !.saved = cfg], cfg, "ok").b
                b2 == BlDutyCycle(b1, cfg, "ok").b
                b3 == BlDutyCycle(b2, bl.brightness, "ok").b
            IN /\ bl' = [b3 EXCEPT !.started = TRUE, !.display = TRUE,
                                   !.hw_initialized = TRUE]
               /\ blLog' = [NoBlOp EXCEPT !.op = "initialize", !.arg = bl.brightness,
                                          !.applied = TRUE, !.prev = bl.duty]

\* display.bl_DutyCycle(d) called directly
BlDutyCycleCall(d, io) ==
    /\ bl.display
    /\ LET r == BlDutyCycle(bl, d, io) IN
       /\ bl' = r.b
       /\ blLog' = [NoBlOp EXCEPT !.op = "bl_DutyCycle", !.arg = d,
                                  !.applied = ~r.raised, !.prev = bl.duty]

\* ST7789.set_brightness, lines 406-412: returns the clamped value
SetBrightness(d, io) ==
    /\ bl.display
    /\ LET v == ClampDuty(d)
           r == BlDutyCycle(bl, v, io)
       IN IF r.raised
          THEN /\ bl' = r.b
               /\ blLog' = [NoBlOp EXCEPT !.op = "set_brightness", !.arg = d,
                                          !.prev = bl.duty]
          ELSE /\ bl' = [r.b EXCEPT !.saved = v]
               /\ blLog' = [NoBlOp EXCEPT !.op = "set_brightness", !.arg = d, !.ret = v,
                                          !.applied = TRUE, !.prev = bl.duty]

\* HardwareManager._set_brightness, lines 151-163, on backlight state b
HwSetBrightness(b, v, io) ==
    IF ~b.hw_initialized \/ ~b.display THEN [b |-> b, applied |-> FALSE]
    ELSE LET c == ClampDuty(v)
             r == BlDutyCycle(b, c, io)
         IN IF r.raised THEN [b |-> r.b, applied |-> FALSE]
            ELSE [b |-> [r.b EXCEPT !.saved = c], applied |-> TRUE]

\* HardwareManager._handle_setting_change, lines 141-149, for the settings
\* that are not the rotation; the handler is subscribed by the constructor
HandleSettingChange(b, name, present, v, io) ==
    IF b.started /\ name = "brightness" /\ present
    THEN HwSetBrightness(b, v, io)
    ELSE [b |-> b, applied |-> FALSE]

\* a setting_change event published on the bus
SettingChange(name, present, v, io) ==
    LET r == HandleSettingChange(bl, name, present, v, io) IN
    /\ bl' = r.b
    /\ blLog' = [NoBlOp EXCEPT !.op = "setting_change", !.arg = v,
                               !.applied = r.applied, !.prev = bl.duty]

\* AppState.brightness.value = v: when the value changes, the observer
\* _on_brightness_change (state_manager.py, lines 103-106) publishes
\* setting_change with the new value
BrightnessChange(v, io) ==
    LET b0 == [bl EXCEPT !.brightness = v]
        r == IF Changed(v, bl.brightness)
             THEN HandleSettingChange(b0, "brightness", TRUE, v, io)
             ELSE [b |-> bl, applied |-> FALSE]
    IN /\ bl' = r.b
       /\ blLog' = [NoBlOp EXCEPT !.op = "brightness", !.arg = v,
                                  !.applied = r.applied, !.prev = bl.duty]

NextBl ==
    \/ \E present \in BOOLEAN, cfg \in Duties, io \in PinOutcomes :
          HwInitializeBl(present, cfg, io)
    \/ \E d \in Duties, io \in PinOutcomes : BlDutyCycleCall(d, io)
    \/ \E d \in Duties, io \in PinOutcomes : SetBrightness(d, io)
    \/ \E name \in SettingNames, present \in BOOLEAN, v \in Duties, io \in PinOutcomes :
          SettingChange(name, present, v, io)
    \/ \E v \in Duties, io \in PinOutcomes : BrightnessChange(v, io)

\* min(100, max(0, d))
Clamped(d) == IF d < 0 THEN 0 ELSE IF d > 100 THEN 100 ELSE d

\* C30: the backlight duty is always within 0..100: for any requested duty d
\* the driven value is min(100, max(0, d)), set_brightness returns that
\* clamped value, and after any sequence of brightness state changes
\* (propagated through setting_change events) the duty never leaves the range.
C30_DutyInRange ==
    /\ bl.duty \in 0..100
    /\ blLog.applied => bl.duty = Clamped(blLog.arg)
    /\ (blLog.op = "set_brightness" /\ blLog.applied) => blLog.ret = Clamped(blLog.arg)
    /\ (blLog.op # "initialize" /\ ~blLog.applied) => bl.duty = blLog.prev

\* the brightness state was set to 150 and the duty driven is 100
C30_Witness ==
    /\ blLog.op = "brightness" /\ blLog.applied
    /\ bl.brightness = 150 /\ bl.duty = 100 /\ blLog.prev < 100

(***************************************************************************)
(* Hardware manager: the entry points of HardwareManager                   *)
(* (hardware_abstraction.py) and their guard on hw_initialized             *)
(***************************************************************************)
MaxCalls == 3           \* calls of the manager's entry points per behaviour

\* how initialize() ends: initialize_hardware raises (line 59, no display
\* object), the backlight call of line 66 raises (the display object exists,
\* its bus is open), or the end of the try block is reached
InitOutcomes == {"no_hw", "bl_raises", "ok"}
\* values of a rotation setting
RotationValues == {0, 90, 45}

NoMgrOp == [op |-> "none", ret |-> FALSE, before |-> LinkReady]

\* before HardwareManager() is constructed: display None, hw_initialized
\* False (lines 33-35), no bus handle; rotation and saved are the defaults of
\* the configuration (config.py, lines 11-12), polls counts the calls of
\* display.update_button_states
InitMgr ==
    /\ mgr = [started |-> FALSE, display |-> FALSE, hw_initialized |-> FALSE,
              link |-> [LinkReady EXCEPT !.spi = "closed", !.bl = "closed"],
              duty |-> 0, saved |-> 50, rotation |-> 0, polls |-> 0, calls |-> 0]
    /\ mgrLog = NoMgrOp

\* __init__ and initialize, lines 27-77
MgrConstruct(o) ==
    /\ ~mgr.started
    /\ mgr' = IF o = "no_hw" THEN [mgr EXCEPT !.started = TRUE]
              ELSE [mgr EXCEPT !.started = TRUE, !.display = TRUE,
                               !.link = LinkReady, !.duty = ClampDuty(mgr.saved),
                               !.hw_initialized = (o = "ok")]
    /\ mgrLog' = [NoMgrOp EXCEPT !.op = "initialize", !.ret = (o = "ok"),
                                 !.before = mgr.link]

\* update, lines 84-127: behind the guard of line 86 the button lines are
\* read through the display object (line 91); the battery part of the tick
\* (lines 114-125) does not use the display
MgrUpdate ==
    /\ mgr.started /\ mgr.calls < MaxCalls
    /\ mgr' = [mgr EXCEPT !.calls = @ + 1,
                          !.polls = IF mgr.hw_initialized THEN @ + 1 ELSE @]
    /\ mgrLog' = [NoMgrOp EXCEPT !.op = "update", !.before = mgr.link]

\* render_to_display, lines 129-139
MgrRender(io) ==
    /\ mgr.started /\ mgr.calls < MaxCalls
    /\ LET r == RenderToDisplay(mgr.link, mgr.hw_initialized /\ mgr.display, io) IN
       /\ mgr' = [mgr EXCEPT !.calls = @ + 1, !.link = r.link]
       /\ mgrLog' = [NoMgrOp EXCEPT !.op = "render", !.ret = (r.outcome = "sent"),
                                    !.before = mgr.link]

\* _set_rotation, lines 165-177, over ST7789.set_rotation (hardware_
\* interface.py, lines 386-396): a valid rotation is stored and the panel is
\* initialized again, which writes to the bus; errors are caught
HwSetRotationDisplayOnly(m, r, io) ==
    IF ~m.display THEN m
    ELSE IF r \notin {0, 90, 180, 270} THEN m
    ELSE [m EXCEPT !.rotation = r, !.link = Transfer(m.link, io).link]
HwSetRotation(m, r, io) ==
    IF ~m.hw_initialized \/ ~m.display THEN m
    ELSE IF r \notin {0, 90, 180, 270} THEN m
    ELSE [m EXCEPT !.rotation = r, !.link = Transfer(m.link, io).link]

\* _handle_setting_change, lines 141-149, for a rotation
MgrRotation(r, io) ==
    /\ mgr.started /\ mgr.calls < MaxCalls
    /\ mgr' = [HwSetRotation(mgr, r, io) EXCEPT !.calls = @ + 1]
    /\ mgrLog' = [NoMgrOp EXCEPT !.op = "rotation", !.before = mgr.link]

\* _handle_setting_change, lines 141-149, for a brightness
MgrBrightness(v, io) ==
    /\ mgr.started /\ mgr.calls < MaxCalls
    /\ LET r == HwSetBrightness(mgr, v, io) IN
       /\ mgr' = [r.b EXCEPT !.calls = @ + 1]
       /\ mgrLog' = [NoMgrOp EXCEPT !.op = "brightness", !.ret = r.applied,
                                    !.before = mgr.link]

NextMgr ==
    \/ \E o \in InitOutcomes : MgrConstruct(o)
    \/ MgrUpdate
    \/ \E io \in IoOutcomes : MgrRender(io)
    \/ \E r \in RotationValues, io \in IoOutcomes : MgrRotation(r, io)
    \/ \E v \in Duties, io \in PinOutcomes : MgrBrightness(v, io)

\* C38: the application never drives the display before initialization has
\* completed: a frame transmission, a button poll, a backlight change or a
\* rotation change issued through the hardware manager reaches the display
\* only if hardware initialization finished successfully; otherwise the call
\* changes nothing (render reports failure) and sends nothing on the bus.
C38_InitImpliesDisplay == mgr.hw_initialized => mgr.display /\ mgr.started
C38_GuardedStep ==
    (mgr.started /\ ~mgr.hw_initialized) =>
        /\ mgr'.link = mgr.link
        /\ mgr'.duty = mgr.duty
        /\ mgr'.saved = mgr.saved
        /\ mgr'.rotation = mgr.rotation
        /\ mgr'.polls = mgr.polls
        /\ ~mgr'.hw_initialized
        /\ ~mgrLog'.ret
C38_InitGate == [](C38_InitImpliesDisplay) /\ [][C38_GuardedStep]_vars
\* the display object exists and its bus is open, initialization has failed,
\* and a valid rotation was requested and a frame was offered
C38_Witness ==
    /\ mgr.started /\ mgr.display /\ ~mgr.hw_initialized
    /\ mgr.link.spi = "open"
    /\ mgr.calls >= 2
    /\ mgrLog.op = "render" /\ ~mgrLog.ret
    /\ mgr.link.xfers = 0

(***************************************************************************)
(* Button channels: the maps of RaspberryPi keyed by channel name          *)
(* (hardware_interface.py); the debounce of one channel is modelled above  *)
(* by Poll                                                                 *)
(***************************************************************************)
\* the keys of button_states, button_callbacks and new_states, lines 78-99
\* and 158-167
ButtonKeys == {"up", "down", "left", "right", "press", "key1", "key2", "key3"}

\* inputs: the channels read as pressed by a poll, and the names given to
\* register_button_callback
LinePatterns == {{}, {"up"}, {"key1", "key3"}}
RegisterNames == {"up", "key3", "UP", "select"}

\* after RaspberryPi.__init__, lines 77-103
InitChan ==
    /\ chan = [states |-> [k \in ButtonKeys |-> FALSE],
               callbacks |-> [k \in ButtonKeys |-> FALSE]]
    /\ chanLog = [op |-> "none", arg |-> "", result |-> FALSE,
                  snapshot |-> [k \in ButtonKeys |-> FALSE], fired |-> {},
                  before |-> [states |-> [k \in ButtonKeys |-> FALSE],
                              callbacks |-> [k \in ButtonKeys |-> FALSE]]]

\* lines 158-167: the dictionary built from the eight lines
NewStates(pressed) == [k \in ButtonKeys |-> k \in pressed]

\* update_button_states, lines 154-183, when the channels in pressed read as
\* pressed; late: the debounce interval has passed for the channels
UpdateButtonStates(pressed, late) ==
    LET new_states == NewStates(pressed) IN
    /\ chan' = [chan EXCEPT !.states = new_states]
    /\ chanLog' = [op |-> "poll", arg |-> "", result |-> TRUE,
                   snapshot |-> new_states,
                   fired |-> {k \in DOMAIN new_states :
                                 /\ new_states[k] /\ ~chan.states[k]
                                 /\ late /\ chan.callbacks[k]},
                   before |-> chan]

\* register_button_callback, lines 185-190, on the map cbs; f: a function
\* (TRUE) or None (FALSE)
RegisterCallbackAny(cbs, name, f) ==
    [k \in DOMAIN cbs \cup {name} |-> IF k = name THEN f ELSE cbs[k]]
RegisterCallback(cbs, name, f) ==
    IF name \in DOMAIN cbs THEN [cbs EXCEPT ![name] = f] ELSE cbs

RegisterCall(name, f) ==
    /\ chan' = [chan EXCEPT !.callbacks = RegisterCallback(@, name, f)]
    /\ chanLog' = [chanLog EXCEPT !.op = "register", !.arg = name,
                                  !.result = name \in DOMAIN chan.callbacks,
                                  !.fired = {}, !.before = chan]

NextChan ==
    \/ \E pressed \in LinePatterns, late \in BOOLEAN : UpdateButtonStates(pressed, late)
    \/ \E name \in RegisterNames, f \in BOOLEAN : RegisterCall(name, f)

\* C35: the set of button channels is fixed at construction: after any
\* sequence of polls and registrations the sampler's state map and every
\* snapshot returned by poll have exactly the 8 keys up, down, left, right,
\* press, key1, key2, key3, and registering a callback for a name outside
\* this set is rejected without changing any state.
C35_ChannelsFixed ==
    LET eight == {"up", "down", "left", "right", "press", "key1", "key2", "key3"} IN
    /\ DOMAIN chan.states = eight
    /\ DOMAIN chan.callbacks = eight
    /\ DOMAIN chanLog.snapshot = eight
    /\ (chanLog.op = "register" /\ chanLog.arg \notin eight) =>
          /\ ~chanLog.result
          /\ chan = chanLog.before
    /\ (chanLog.op = "register" /\ chanLog.arg \in eight) => chanLog.result

\* a registration for an unknown name was rejected after callbacks had been
\* registered and a poll had read a channel pressed
C35_Witness ==
    /\ chanLog.op = "register" /\ chanLog.arg = "select" /\ ~chanLog.result
    /\ chan.callbacks["up"] /\ chan.states["up"]

(***************************************************************************)
(* Battery status of a tick: BatteryManager.get_battery_voltage,           *)
(* get_battery_percentage, is_charging (hardware_interface.py), the call   *)
(* of the three by HardwareManager.update (hardware_abstraction.py) and    *)
(* AppState.update_battery_status (state_manager.py)                       *)
(***************************************************************************)
\* None: an unknown field; and a register read that raises
Unknown == -1
Raises == -2

\* what read_byte_data returns for the registers 0x22, 0x23, 0x2A and 0x02
HighBytes == {16, Raises}
LowBytes == {0, 255, Raises}
PercentageReads == {50, 80, Raises}
StatusBytes == {127, 128, Raises}

\* get_battery_voltage, lines 447-462
GetBatteryVoltageLowFirst(init, hi, lo) ==
    IF ~init \/ hi = Raises \/ lo = Raises THEN Unknown
    ELSE BitOrN(lo * 256, hi, 16)
GetBatteryVoltage(init, hi, lo) ==
    IF ~init \/ hi = Raises \/ lo = Raises THEN Unknown
    ELSE BitOrN(hi * 256, lo, 16)

\* get_battery_percentage, lines 464-485: the value returned (the alarms and
\* the shutdown request of lines 473-480 are modelled by ReadPercentage)
GetBatteryPercentage(init, p) ==
    IF ~init \/ p = Raises THEN Unknown ELSE p

\* is_charging, lines 487-500: bool(status & (1 << 7)), as 0 or 1
IsCharging(init, st) ==
    IF ~init \/ st = Raises THEN Unknown
    ELSE IF BitAnd(st, 128) # 0 THEN 1 ELSE 0

\* AppState.update_battery_status, lines 132-138, on the state s: the new
\* values, and the Observables whose observers are notified (those whose
\* value changes, Observable.value setter line 28)
UpdateBatteryStatusGuarded(s, p, v, c) ==
    LET t == [s EXCEPT !.pct = IF p # Unknown THEN p ELSE @,
                       !.volt = IF v # Unknown THEN v ELSE @,
                       !.chg = IF c # Unknown THEN c ELSE @]
    IN [s |-> t,
        notified |-> {f \in {"pct", "volt", "chg"} :
                         \/ f = "pct" /\ Changed(t.pct, s.pct)
                         \/ f = "volt" /\ Changed(t.volt, s.volt)
                         \/ f = "chg" /\ Changed(t.chg, s.chg)}]
UpdateBatteryStatus(s, p, v, c) ==
    LET t == [s EXCEPT !.pct = IF p # Unknown THEN p ELSE @,
                       !.volt = IF v # Unknown THEN v ELSE @,
                       !.chg = c]
    IN [s |-> t,
        notified |-> {f \in {"pct", "volt", "chg"} :
                         \/ f = "pct" /\ p # Unknown /\ Changed(p, s.pct)
                         \/ f = "volt" /\ v # Unknown /\ Changed(v, s.volt)
                         \/ f = "chg" /\ Changed(c, s.chg)}]

NoTick == [made |-> FALSE, hi |-> 0, lo |-> 0, p |-> 0, st |-> 0,
           percentage |-> Unknown, voltage |-> Unknown, charging |-> Unknown,
           before |-> <<>>, notified |-> {}]

\* AppState.__init__, lines 73-75; no BatteryManager yet
InitSense ==
    /\ sense = [built |-> FALSE, initialized |-> FALSE,
                pct |-> Unknown, volt |-> Unknown, chg |-> 0]
    /\ senseLog = NoTick

\* BatteryManager.__init__, lines 418-445: ok iff the I2C bus could be opened
SenseConstruct(ok) ==
    /\ ~sense.built
    /\ sense' = [sense EXCEPT !.built = TRUE, !.initialized = ok]
    /\ UNCHANGED senseLog

\* HardwareManager.update, lines 114-121: the three reads, then the update of
\* the state
SenseTick(hi, lo, p, st) ==
    /\ sense.built
    /\ LET percentage == GetBatteryPercentage(sense.initialized, p)
           voltage == GetBatteryVoltage(sense.initialized, hi, lo)
           charging == IsCharging(sense.initialized, st)
           u == UpdateBatteryStatus(sense, percentage, voltage, charging)
       IN /\ sense' = u.s
          /\ senseLog' = [made |-> TRUE, hi |-> hi, lo |-> lo, p |-> p, st |-> st,
                          percentage |-> percentage, voltage |-> voltage,
                          charging |-> charging,
                          before |-> <<sense.pct, sense.volt, sense.chg>>,
                          notified |-> u.notified]

NextSense ==
    \/ \E ok \in BOOLEAN : SenseConstruct(ok)
    \/ \E hi \in HighBytes, lo \in LowBytes, p \in PercentageReads, st \in StatusBytes :
          SenseTick(hi, lo, p, st)

\* C32: in a battery read, a failure of one register read makes only that
\* field unknown: a failed voltage read (either byte) leaves percentage and
\* charging as read, a failed percentage read leaves voltage and charging as
\* read, a failed status read leaves voltage and percentage as read; a
\* successful voltage is (high << 8) | low and charging is bit 7 of status.
C32_FieldLevelDegrade ==
    (senseLog.made /\ sense.initialized) =>
        /\ senseLog.percentage = IF senseLog.p = Raises THEN Unknown ELSE senseLog.p
        /\ senseLog.voltage = IF senseLog.hi = Raises \/ senseLog.lo = Raises
                              THEN Unknown
                              ELSE senseLog.hi * 256 + senseLog.lo
        /\ senseLog.charging = IF senseLog.st = Raises THEN Unknown
                               ELSE IF senseLog.st >= 128 THEN 1 ELSE 0

\* the low voltage byte failed; percentage and charging were read
C32_Witness ==
    /\ senseLog.made /\ sense.initialized
    /\ senseLog.hi = 16 /\ senseLog.lo = Raises /\ senseLog.voltage = Unknown
    /\ senseLog.percentage = 80 /\ senseLog.charging = 1

\* C39: when a tick's percentage or voltage read is unknown, the state
\* Observable keeps its previous value and its observers are not notified,
\* while the charging Observable is overwritten with the tick's charging
\* result even when that result is unknown.
C39_UnknownKeepsValue ==
    senseLog.made =>
        /\ senseLog.percentage = Unknown =>
              sense.pct = senseLog.before[1] /\ "pct" \notin senseLog.notified
        /\ senseLog.voltage = Unknown =>
              sense.volt = senseLog.before[2] /\ "volt" \notin senseLog.notified
        /\ sense.chg = senseLog.charging
        /\ "chg" \in senseLog.notified <=> senseLog.charging # senseLog.before[3]

\* a tick with unknown percentage and unknown charging after values were read
C39_Witness ==
    /\ senseLog.made /\ senseLog.percentage = Unknown /\ senseLog.charging = Unknown
    /\ senseLog.before[1] = 80 /\ senseLog.before[3] = 1
    /\ sense.pct = 80 /\ sense.chg = Unknown /\ senseLog.voltage # Unknown

(***************************************************************************)
(* Battery: BatteryManager (hardware_interface.py)                         *)
(***************************************************************************)
MaxReads == 4           \* percentage reads per behaviour

\* values of the percentage register 0x2A around the thresholds
Percentages == {0, 3, 5, 8, 10, 15, 20, 25}

\* the battery section of the configuration: the defaults of config.py lines
\* 20-22, automatic shutdown switched off, and another ordered triple
DefaultThresholds == [low_warning |-> 20, critical_warning |-> 10, auto_shutdown |-> 5]
ThresholdSets ==
    {DefaultThresholds,
     [low_warning |-> 20, critical_warning |-> 10, auto_shutdown |-> 0],
     [low_warning |-> 15, critical_warning |-> 8, auto_shutdown |-> 3]}

\* a read that returned None
NoRead == [ok |-> FALSE, p |-> -1, alarm |-> "none", shutdown |-> FALSE,
           runs |-> 0, failed |-> FALSE]

\* subprocess.run of the shutdown command, line 509: it returns or raises
RunOutcomes == {"ok", "raise"}

\* before BatteryManager() is constructed
InitBat ==
    /\ bat = [built |-> FALSE, initialized |-> FALSE, th |-> DefaultThresholds,
              cfg |-> DefaultThresholds]
    /\ batLog = <<>>

\* BatteryManager.__init__, lines 418-445: the thresholds are read from the
\* configuration; if the I2C bus cannot be opened the object is left
\* uninitialized with the built-in thresholds
BatteryManagerInit(cfg, ok) ==
    /\ ~bat.built
    /\ bat' = [built |-> TRUE, initialized |-> ok,
               th |-> IF ok THEN cfg ELSE DefaultThresholds, cfg |-> cfg]
    /\ UNCHANGED batLog

\* lines 474-480: the alarm logged for percentage p
Alarm(p, th) ==
    IF p <= th.auto_shutdown THEN "critical"
    ELSE IF p <= th.critical_warning THEN "critical"
    ELSE IF p <= th.low_warning THEN "warning"
    ELSE "none"

\* _trigger_auto_shutdown, lines 502-511: the shutdown command is run only if
\* the configured auto_shutdown value is positive
TriggerAutoShutdown(cfg) == cfg.auto_shutdown > 0

\* line 474 and 476: is the system shutdown requested for percentage p?
ShutdownRequestedLatched(p, b) ==
    /\ p <= b.th.auto_shutdown /\ TriggerAutoShutdown(b.cfg)
    /\ \A i \in 1..Len(batLog) : ~batLog[i].shutdown
ShutdownRequested(p, b) == p <= b.th.auto_shutdown /\ TriggerAutoShutdown(b.cfg)

\* get_battery_percentage, lines 464-485, when register 0x2A reads p and the
\* shutdown command, if it is run, ends as run says: the command is run once
\* (runs), an error it raises is caught at line 510 (failed) and line 482
\* returns the percentage
ReadPercentage(p, run) ==
    /\ bat.built
    /\ Len(batLog) < MaxReads
    /\ run = "raise" => bat.initialized /\ ShutdownRequested(p, bat)
    /\ batLog' = Append(batLog,
           IF bat.initialized
           THEN [ok |-> TRUE, p |-> p, alarm |-> Alarm(p, bat.th),
                 shutdown |-> ShutdownRequested(p, bat),
                 runs |-> IF ShutdownRequested(p, bat) THEN 1 ELSE 0,
                 failed |-> ShutdownRequested(p, bat) /\ run = "raise"]
           ELSE NoRead)
    /\ UNCHANGED bat

\* get_battery_percentage when the register read raises: lines 483-485
ReadFails ==
    /\ bat.built /\ bat.initialized
    /\ Len(batLog) < MaxReads
    /\ batLog' = Append(batLog, NoRead)
    /\ UNCHANGED bat

NextBat ==
    \/ \E cfg \in ThresholdSets, ok \in BOOLEAN : BatteryManagerInit(cfg, ok)
    \/ \E p \in Percentages, run \in RunOutcomes : ReadPercentage(p, run)
    \/ ReadFails

(***************************************************************************)
(* Battery: properties                                                     *)
(***************************************************************************)
\* the outcome the thresholds prescribe for percentage p
Prescribed(p, th) ==
    IF p <= th.auto_shutdown THEN [alarm |-> "critical", shutdown |-> TRUE]
    ELSE IF p <= th.critical_warning THEN [alarm |-> "critical", shutdown |-> FALSE]
    ELSE IF p <= th.low_warning THEN [alarm |-> "warning", shutdown |-> FALSE]
    ELSE [alarm |-> "none", shutdown |-> FALSE]

Ordered(th) == th.auto_shutdown < th.critical_warning /\ th.critical_warning < th.low_warning

ReadsFollow(th) ==
    \A i \in 1..Len(batLog) :
        batLog[i].ok =>
            /\ batLog[i].alarm = Prescribed(batLog[i].p, th).alarm
            /\ batLog[i].shutdown = Prescribed(batLog[i].p, th).shutdown

DefaultSequence ==
    (/\ bat.built /\ bat.initialized /\ bat.th = DefaultThresholds
     /\ Len(batLog) = 4
     /\ \A i \in 1..4 : batLog[i].ok /\ batLog[i].p = <<25, 15, 8, 3>>[i])
    => /\ [i \in 1..4 |-> batLog[i].alarm] = <<"none", "warning", "critical", "critical">>
       /\ [i \in 1..4 |-> batLog[i].shutdown] = <<FALSE, FALSE, FALSE, TRUE>>

\* C12 as stated: for every successful read p with thresholds shutdown <
\* critical < low, the outcome is the one the thresholds prescribe (p <=
\* shutdown: critical alarm and shutdown request; p <= critical: critical
\* alarm; p <= low: warning; otherwise none).
C12_Original ==
    (bat.built /\ Ordered(bat.th)) => ReadsFollow(bat.th)

\* C12: the same for thresholds 0 < shutdown < critical < low, and with the
\* defaults the reads 25, 15, 8, 3 give none, warning, critical, critical with
\* shutdown request.
C12_BatteryOutcomes ==
    /\ (bat.built /\ Ordered(bat.th) /\ bat.cfg.auto_shutdown > 0) => ReadsFollow(bat.th)
    /\ DefaultSequence

\* the default sequence has been read
C12_Witness ==
    /\ bat.built /\ bat.initialized /\ bat.th = DefaultThresholds
    /\ Len(batLog) = 4
    /\ \A i \in 1..4 : batLog[i].ok /\ batLog[i].p = <<25, 15, 8, 3>>[i]
    /\ batLog[4].shutdown

\* C40: the shutdown request is not latched: every successful percentage
\* read with percentage <= shutdown threshold, the configured auto-shutdown
\* value being above 0, issues one new shutdown request, so k consecutive
\* reads at or below the threshold issue k requests; a failing request is not
\* retried within the read, and the read still returns the percentage.
AtOrBelow(i) == batLog[i].ok /\ batLog[i].p <= bat.th.auto_shutdown
C40_RequestPerRead ==
    (bat.built /\ bat.cfg.auto_shutdown > 0) =>
        /\ \A i \in 1..Len(batLog) :
              /\ AtOrBelow(i) => batLog[i].shutdown /\ batLog[i].runs = 1
              /\ batLog[i].failed => AtOrBelow(i) /\ batLog[i].runs = 1 /\ batLog[i].p >= 0
              /\ ~AtOrBelow(i) => batLog[i].runs = 0
        /\ Cardinality({i \in 1..Len(batLog) : batLog[i].runs = 1})
             = Cardinality({i \in 1..Len(batLog) : AtOrBelow(i)})

\* three consecutive reads at or below the threshold, each with its request,
\* the second request failing
C40_Witness ==
    /\ bat.built /\ bat.initialized /\ bat.cfg.auto_shutdown > 0
    /\ Len(batLog) = 3
    /\ \A i \in 1..3 : AtOrBelow(i) /\ batLog[i].shutdown
    /\ batLog[2].failed /\ batLog[2].ok /\ batLog[2].p = 3
    /\ ~batLog[3].failed

\* C13: in every tick the pacing sleep is max(0, 50 - elapsed): never
\* negative, 0 when the tick took 50 ms or more, and independent of the
\* durations of the earlier ticks.
C13_PacingSleep ==
    \A i \in 1..Len(appLog.pacing) :
        LET t == appLog.pacing[i] IN
        /\ t.sleep >= 0
        /\ t.elapsed >= 50 => t.sleep = 0
        /\ t.elapsed < 50 => t.sleep = 50 - t.elapsed

\* a fast tick was paced after a slow one
C13_Witness ==
    /\ Len(appLog.pacing) >= 2
    /\ appLog.pacing[1].elapsed = 70 /\ appLog.pacing[1].sleep = 0
    /\ appLog.pacing[2].elapsed = 20 /\ appLog.pacing[2].sleep = 30

\* C14: a stop request made inside a tick takes effect at the next tick
\* boundary: the rest of the tick runs against a still-usable display, and no
\* further tick starts.
C14_StopAtTickBoundary ==
    appLog.stoppedAt > 0 =>
        /\ appLog.ticks = appLog.stoppedAt
        /\ (pc \in {"update", "render"} /\ hw_initialized) => link.spi = "open"

\* what the code does: no further tick starts after shutdown() was called
C14_NoFurtherTick == appLog.stoppedAt > 0 => appLog.ticks = appLog.stoppedAt

\* C22: a bus failure while a frame is transmitted is confined to its tick:
\* the frame is dropped, the error does not leave the render step (the loop
\* goes on to pace the tick), and the frame of the next tick is transmitted
\* whole again, beginning with the window-addressing sequence of the panel.
C22_FrameFailureConfined ==
    /\ ~appLog.renderRaised
    /\ \A i \in 1..Len(appLog.frames) :
          LET f == appLog.frames[i] IN
          /\ (f.bus = "open" /\ f.io # "ok" /\ hw_initialized) => f.outcome = "dropped"
          /\ (f.bus = "open" /\ f.io = "ok" /\ hw_initialized) =>
                /\ f.outcome = "sent"
                /\ Len(f.head) = 11
                /\ f.head[1] = <<0, 42>> /\ f.head[5] = <<1, 239>>
                /\ f.head[6] = <<0, 43>> /\ f.head[10] = <<1, 239>>
                /\ f.head[11] = <<0, 44>>
    /\ (appLog.frames # <<>> /\ appLog.frames[Len(appLog.frames)].outcome = "dropped"
        /\ Len(appLog.frames) = appLog.ticks)
          => pc \in {"sleep", "loop", "finally", "done", "exited"}

\* a frame was sent whole in the tick after a dropped frame
C22_Witness ==
    /\ Len(appLog.frames) >= 2
    /\ appLog.frames[1].outcome = "dropped" /\ appLog.frames[1].io = "fail_data"
    /\ appLog.frames[2].outcome = "sent"
    /\ running /\ pc = "sleep"

\* C31: a completed shutdown first clears the panel and then leaves the link
\* in the safe idle state: bus released, reset line high, command/data line
\* low, backlight off; no byte is sent on the bus after it has been released.
C31_IdleState ==
    /\ (appLog.lastCall.made /\ appLog.hwDone >= 1 /\ ~appLog.lastCall.afterDone
         /\ appLog.lastCall.init) =>
            /\ appLog.lastCall.after.xfers = appLog.lastCall.before.xfers + 1
            /\ appLog.lastCall.after.spi = "closed"
    /\ appLog.hwDone >= 1 =>
            /\ link.spi = "closed" /\ link.rst = 1 /\ link.dc = 0
            /\ link.bl = "closed"
C31_NoByteAfterRelease ==
    link.spi = "closed" => link'.xfers = link.xfers /\ link'.spi = "closed"
C31_SafeShutdown == [](C31_IdleState) /\ [][C31_NoByteAfterRelease]_vars

\* the shutdown completed and a frame was attempted afterwards
C31_Witness ==
    /\ appLog.hwDone = 1 /\ link.spi = "closed" /\ link.xfers >= 1
    /\ \E i \in 1..Len(appLog.frames) : appLog.frames[i].bus = "closed"

\* C33: cached screens are never evicted or rebuilt: for any sequence of
\* screen loads each screen name is constructed at most once, the cache only
\* grows, and loading a name already in the cache activates the instance that
\* was created the first time.
C33_CacheInv ==
    /\ \A n \in LoadNames : appLog.built[n] <= 1 /\ (n \in screens <=> appLog.built[n] = 1)
    /\ activeScreen \in screens
    /\ appLog.loads > 0 => appLog.hooks[Len(appLog.hooks)] = <<"activate", activeScreen>>
C33_CacheStep ==
    /\ screens \subseteq screens'
    /\ \A n \in screens : appLog'.built[n] = appLog.built[n]
C33_ScreensCached == [](C33_CacheInv) /\ [][C33_CacheStep]_vars

\* a cached screen was loaded again after another screen had been active
C33_Witness ==
    /\ appLog.loads >= 3 /\ activeScreen = "menu"
    /\ appLog.hooks = <<<<"deactivate", "settings">>, <<"activate", "menu">>>>
    /\ appLog.built["menu"] = 1 /\ appLog.built["settings"] = 1

\* C11: if hardware initialization failed, the tick loop is never entered and
\* the process entry point returns a non-zero exit code.
C11_InitFailureAborts ==
    ~hw_initialized =>
        /\ appLog.ticks = 0
        /\ pc \notin {"update", "render", "sleep"}
        /\ pc = "exited" => appLog.exitCode # 0

\* what the code does: whatever the outcome of initialization, the entry point
\* returns 0 once run() has returned
C11_ExitCodeAlwaysZero == pc = "exited" => appLog.exitCode = 0

Init == InitBus /\ InitObs /\ InitBtn /\ InitApp /\ InitBat /\ InitDisp /\ InitToast
        /\ InitBl /\ InitSense /\ InitChan /\ InitMgr

SpecBus == Init /\ [][NextBus /\ UNCHANGED <<obsVars, btnVars, appVars, batVars, dispVars, toastVars, blVars, senseVars, chanVars, mgrVars>>]_vars

SpecObs == Init /\ [][NextObs /\ UNCHANGED <<busVars, btnVars, appVars, batVars, dispVars, toastVars, blVars, senseVars, chanVars, mgrVars>>]_vars

SpecBtn == Init /\ [][NextBtn /\ UNCHANGED <<busVars, obsVars, appVars, batVars, dispVars, toastVars, blVars, senseVars, chanVars, mgrVars>>]_vars

SpecApp == Init /\ [][NextApp /\ UNCHANGED <<busVars, obsVars, btnVars, batVars, dispVars, toastVars, blVars, senseVars, chanVars, mgrVars>>]_vars

SpecBat == Init /\ [][NextBat /\ UNCHANGED <<busVars, obsVars, btnVars, appVars, dispVars, toastVars, blVars, senseVars, chanVars, mgrVars>>]_vars

SpecDisp == Init /\ [][NextDisp /\ UNCHANGED <<busVars, obsVars, btnVars, appVars, batVars, toastVars, blVars, senseVars, chanVars, mgrVars>>]_vars

SpecToast == Init /\ [][NextToast /\ UNCHANGED <<busVars, obsVars, btnVars, appVars, batVars, dispVars, blVars, senseVars, chanVars, mgrVars>>]_vars

SpecBl == Init /\ [][NextBl /\ UNCHANGED <<busVars, obsVars, btnVars, appVars, batVars, dispVars, toastVars, senseVars, chanVars, mgrVars>>]_vars

SpecSense == Init /\ [][NextSense /\ UNCHANGED <<busVars, obsVars, btnVars, appVars, batVars, dispVars, toastVars, blVars, chanVars, mgrVars>>]_vars

SpecScreens == Init /\ [][NextScreens /\ UNCHANGED <<busVars, obsVars, btnVars, batVars, dispVars, toastVars, blVars, senseVars, chanVars, mgrVars>>]_vars

SpecChan == Init /\ [][NextChan /\ UNCHANGED <<busVars, obsVars, btnVars, appVars, batVars, dispVars, toastVars, blVars, senseVars, mgrVars>>]_vars

SpecMgr == Init /\ [][NextMgr /\ UNCHANGED <<busVars, obsVars, btnVars, appVars, batVars, dispVars, toastVars, blVars, senseVars, chanVars>>]_vars

SpecPix == Init /\ [][NextPix /\ UNCHANGED <<busVars, obsVars, btnVars, appVars, batVars, toastVars, blVars, senseVars, chanVars, mgrVars>>]_vars

====
